---------------------------- MODULE Spec2Model ----------------------------
(***************************************************************************)
(* A model of the loxide front end: Scanner::scan_tokens, Parser::parse,   *)
(* interpret and the run driver that chains them.                          *)
(*                                                                         *)
(* A source text is a sequence of code points, each written as a one       *)
(* element string (the non-ASCII ones are written "U+00E9", ...).  A       *)
(* grapheme is a non-empty sequence of code points; byte offsets are       *)
(* UTF-8 offsets, as in the Rust source.                                   *)
(***************************************************************************)
EXTENDS Integers, Sequences, FiniteSets, TLC

VARIABLES
    source,          \* the text handed to run / scan_tokens
    grapheme_iter,   \* the Peekable<GraphemeIndices>: the graphemes still to come
    line_number,     \* Scanner.line_number
    lexeme_start,    \* Scanner.lexeme_start
    lexeme_current,  \* Scanner.lexeme_current
    tokens,          \* Scanner.tokens: Vec<PossibleToken>
    pc,              \* position of run: scanning, scanned, reported, parsing, parsed,
                     \* done, or scan_panicked, unwrap_panicked, parse_panicked
    output,          \* the lines run has printed
    parser_tokens,   \* Parser.tokens, once run has unwrapped them
    parse_result,    \* what Parser::parse returned
    result,          \* what interpret returned
    stdin,           \* interactive mode: the lines still to be typed
    eof_reads,       \* reads at the end of the input that return no bytes
    reader,          \* the input-reading thread: running or failed
    channel,         \* the mpsc channel: lines sent and not yet received
    has_quit,        \* the AtomicBool shared with the Ctrl-C handler
    interrupts,      \* runs of the Ctrl-C handler so far
    sent,            \* history: every line sent on the channel, in order
    received,        \* history: every line try_recv has returned, in order
    returned         \* history: the number of process_line calls that returned

vars == <<source, grapheme_iter, line_number, lexeme_start, lexeme_current,
          tokens, pc, output, parser_tokens, parse_result, result,
         stdin, eof_reads, reader, channel, has_quit, interrupts, sent,
         received, returned>>

\* the state of the interactive loop
repl == <<stdin, eof_reads, reader, channel, has_quit, interrupts, sent,
         received, returned>>

\* no interactive session: run is called once on a text
ReplIdle ==
    /\ stdin = <<>>
    /\ eof_reads = 0
    /\ reader = "running"
    /\ channel = <<>>
    /\ has_quit = FALSE
    /\ interrupts = 0
    /\ sent = <<>>
    /\ received = <<>>
    /\ returned = 0

(***************************************************************************)
(* Text: code points, UTF-8 widths, character classes.                     *)
(***************************************************************************)
Digits == {"0", "1", "2", "3", "4", "5", "6", "7", "8", "9"}

AsciiLetters == {"a", "b", "c", "d", "e", "f", "g", "h", "i", "j", "k", "l", "m",
                 "n", "o", "p", "q", "r", "s", "t", "u", "v", "w", "x", "y", "z"}

\* U+00E9, a precomposed alphabetic code point of two bytes
EAcute == "U+00E9"

\* U+0301, a combining mark (Grapheme_Extend) of two bytes, not alphabetic
CombiningAcute == "U+0301"

\* U+20AC, a three byte symbol
Euro == "U+20AC"

\* U+0663, an Arabic-Indic digit of two bytes: numeric, not an ASCII digit
ArabicThree == "U+0663"

Utf8Len(c) ==
    CASE c = EAcute -> 2
      [] c = CombiningAcute -> 2
      [] c = Euro -> 3
      [] c = ArabicThree -> 2
      [] OTHER -> 1

\* char::is_ascii_digit
IsAsciiDigit(c) == c \in Digits

\* char::is_alphabetic
IsAlphabetic(c) == c \in AsciiLetters \cup {EAcute}

\* char::is_alphanumeric
IsAlphanumeric(c) == IsAlphabetic(c) \/ c \in Digits \cup {ArabicThree}

RECURSIVE ByteLen(_)
ByteLen(text) ==
    IF text = <<>> THEN 0 ELSE Utf8Len(Head(text)) + ByteLen(Tail(text))

\* byte offset of the k-th code point of text (k = Len(text) + 1: the end)
OffsetOf(text, k) == ByteLen(SubSeq(text, 1, k - 1))

IsCharBoundary(text, b) == \E k \in 1..(Len(text) + 1) : OffsetOf(text, k) = b

(***************************************************************************)
(* UnicodeSegmentation::grapheme_indices(source, true): no break between   *)
(* CR and LF, no break before an Extend code point unless the code point   *)
(* before it is a control (CR, LF, TAB).                                   *)
(***************************************************************************)
IsControl(c) == c \in {"\r", "\n", "\t"}

NoBreakBetween(a, b) ==
    \/ a = "\r" /\ b = "\n"
    \/ b = CombiningAcute /\ ~IsControl(a)

RECURSIVE Segment(_, _, _)
Segment(text, k, acc) ==
    IF k > Len(text) THEN acc
    ELSE IF acc # <<>> /\ k > 1 /\ NoBreakBetween(text[k - 1], text[k])
         THEN Segment(text, k + 1,
                      [acc EXCEPT ![Len(acc)].g = Append(@, text[k])])
         ELSE Segment(text, k + 1,
                      Append(acc, [idx |-> OffsetOf(text, k), g |-> <<text[k]>>]))

grapheme_indices(text) == Segment(text, 1, <<>>)

(***************************************************************************)
(* Tokens, literals, error reports.                                        *)
(***************************************************************************)
KEYWORDS ==
    ( <<"a", "n", "d">> :> "And" ) @@
    ( <<"c", "l", "a", "s", "s">> :> "Class" ) @@
    ( <<"e", "l", "s", "e">> :> "Else" ) @@
    ( <<"f", "a", "l", "s", "e">> :> "False" ) @@
    ( <<"f", "o", "r">> :> "For" ) @@
    ( <<"f", "u", "n">> :> "Fun" ) @@
    ( <<"i", "f">> :> "If" ) @@
    ( <<"n", "i", "l">> :> "Nil" ) @@
    ( <<"o", "r">> :> "Or" ) @@
    ( <<"p", "r", "i", "n", "t">> :> "Print" ) @@
    ( <<"r", "e", "t", "u", "r", "n">> :> "Return" ) @@
    ( <<"s", "u", "p", "e", "r">> :> "Super" ) @@
    ( <<"t", "h", "i", "s">> :> "This" ) @@
    ( <<"t", "r", "u", "e">> :> "True" ) @@
    ( <<"v", "a", "r">> :> "Var" ) @@
    ( <<"w", "h", "i", "l", "e">> :> "While" )

\* Option<Literal>::None
None == [kind |-> "None"]

LitIdentifier(text) == [kind |-> "Identifier", val |-> text]
LitString(text) == [kind |-> "String", val |-> text]
LitNumber(q) == [kind |-> "Number", val |-> q]
LitBoolean(b) == [kind |-> "Boolean", val |-> b]

Token(token_type, lexeme, literal, line) ==
    [token_type |-> token_type, lexeme |-> lexeme, literal |-> literal,
     line_number |-> line]

LoxErrorReport(line, location, message) ==
    [line_number |-> line, location |-> location, message |-> message]

PossibleTokenOk(token) == [ok |-> TRUE, token |-> token]
PossibleTokenErr(report) == [ok |-> FALSE, err |-> report]

(***************************************************************************)
(* f64 values are modelled as fractions in lowest terms with a positive    *)
(* denominator; str::parse::<f64> accepts digits with at most one '.'      *)
(* provided at least one digit is present.                                 *)
(***************************************************************************)
RECURSIVE Gcd(_, _)
Gcd(a, b) == IF b = 0 THEN a ELSE Gcd(b, a % b)

Abs(x) == IF x < 0 THEN -x ELSE x

Frac(n, d) ==
    LET s == IF d < 0 THEN -1 ELSE 1
        g == Gcd(Abs(n), Abs(d))
    IN  [n |-> (s * n) \div g, d |-> (s * d) \div g]

DigitVal(c) ==
    CASE c = "0" -> 0 [] c = "1" -> 1 [] c = "2" -> 2 [] c = "3" -> 3
      [] c = "4" -> 4 [] c = "5" -> 5 [] c = "6" -> 6 [] c = "7" -> 7
      [] c = "8" -> 8 [] c = "9" -> 9

\* n collects the digits; d = 0 until the '.' is met, then the power of ten
RECURSIVE DecimalValue(_, _, _, _)
DecimalValue(text, k, n, d) ==
    IF k > Len(text) THEN Frac(n, IF d = 0 THEN 1 ELSE d)
    ELSE IF text[k] = "." THEN DecimalValue(text, k + 1, n, 1)
    ELSE DecimalValue(text, k + 1, n * 10 + DigitVal(text[k]), d * 10)

\* str::parse::<f64>() is Ok ("1." and ".5" are accepted, "." and "" are not)
ParseF64Ok(text) ==
    /\ \A k \in 1..Len(text) : text[k] \in Digits \cup {"."}
    /\ Cardinality({k \in 1..Len(text) : text[k] = "."}) <= 1
    /\ \E k \in 1..Len(text) : text[k] \in Digits

ParseF64(text) == DecimalValue(text, 1, 0, 0)

(***************************************************************************)
(* The scanner.  A scanner state sc is the Scanner struct together with    *)
(* the grapheme iterator and a flag telling that a slice panicked.         *)
(***************************************************************************)
ScannerNew(src) ==
    [line_number |-> 0, lexeme_start |-> 0, lexeme_current |-> 0,
     tokens |-> <<>>, iter |-> grapheme_indices(src), panicked |-> FALSE]

\* &src[a..b] is in range and on char boundaries (it panics otherwise)
SliceOk(src, a, b) ==
    /\ a <= b
    /\ b <= ByteLen(src)
    /\ IsCharBoundary(src, a)
    /\ IsCharBoundary(src, b)

Slice(src, a, b) ==
    LET ka == CHOOSE k \in 1..(Len(src) + 1) : OffsetOf(src, k) = a
        kb == CHOOSE k \in 1..(Len(src) + 1) : OffsetOf(src, k) = b
    IN  SubSeq(src, ka, kb - 1)

get_lexeme_ok(sc, src) == SliceOk(src, sc.lexeme_start, sc.lexeme_current + 1)

get_lexeme(sc, src) == Slice(src, sc.lexeme_start, sc.lexeme_current + 1)

Panic(sc) == [sc EXCEPT !.panicked = TRUE]

Push(sc, possible_token) == [sc EXCEPT !.tokens = Append(@, possible_token)]

add_token(sc, token_type, src) ==
    IF ~get_lexeme_ok(sc, src) THEN Panic(sc)
    ELSE Push(sc, PossibleTokenOk(
             Token(token_type, get_lexeme(sc, src), None, sc.line_number)))

add_literal_token(sc, token_type, literal, src) ==
    IF ~get_lexeme_ok(sc, src) THEN Panic(sc)
    ELSE Push(sc, PossibleTokenOk(
             Token(token_type, get_lexeme(sc, src), literal, sc.line_number)))

\* next_matches that peeks but does not take the grapheme it matched
next_matches_NoAdvance(sc, expected) ==
    IF sc.iter # <<>> /\ Head(sc.iter).g = <<expected>>
    THEN [matched |-> TRUE,
          sc |-> [sc EXCEPT !.lexeme_current = Head(sc.iter).idx]]
    ELSE [matched |-> FALSE, sc |-> sc]

\* the pair (returned bool, scanner afterwards)
next_matches(sc, expected) ==
    IF sc.iter # <<>> /\ Head(sc.iter).g = <<expected>>
    THEN [matched |-> TRUE,
          sc |-> [sc EXCEPT !.lexeme_current = Head(sc.iter).idx,
                            !.iter = Tail(sc.iter)]]
    ELSE [matched |-> FALSE, sc |-> sc]

add_if_next_matches(sc, expected, on_true, on_false, src) ==
    LET m == next_matches(sc, expected)
    IN  IF m.matched THEN add_token(m.sc, on_true, src)
        ELSE add_token(m.sc, on_false, src)

is_digit(g) == IsAsciiDigit(g[1])

is_alpha(g) == IsAlphabetic(g[1]) \/ g[1] = "_"

is_alphanumeric(g) == IsAlphanumeric(g[1]) \/ g[1] = "_"

\* while grapheme_iter.next_if(|(_, g)| *g != "\n").is_some() {}
RECURSIVE SkipLine(_)
SkipLine(iter) ==
    IF iter # <<>> /\ Head(iter).g # <<"\n">> THEN SkipLine(Tail(iter)) ELSE iter

LineComment(sc) ==
    [sc EXCEPT !.iter = SkipLine(sc.iter), !.line_number = @ + 1]

\* the loop without the depth += 1 arm: the first "*/" ends the comment
RECURSIVE BlockComment_NoNesting(_, _)
BlockComment_NoNesting(sc, depth) ==
    IF sc.iter = <<>> THEN sc
    ELSE LET g == Head(sc.iter).g
             s1 == [sc EXCEPT !.iter = Tail(sc.iter)]
             close == next_matches(s1, "/")
         IN  IF g = <<"*">> /\ close.matched
             THEN IF depth - 1 = 0 THEN close.sc
                  ELSE BlockComment_NoNesting(close.sc, depth - 1)
             ELSE BlockComment_NoNesting(s1, depth)

\* the loop of the multiline comment, entered with depth = 1
RECURSIVE BlockComment(_, _)
BlockComment(sc, depth) ==
    IF sc.iter = <<>> THEN sc
    ELSE LET g == Head(sc.iter).g
             s1 == [sc EXCEPT !.iter = Tail(sc.iter)]
             close == next_matches(s1, "/")
             open == next_matches(s1, "*")
         IN  IF g = <<"*">> /\ close.matched
             THEN IF depth - 1 = 0 THEN close.sc
                  ELSE BlockComment(close.sc, depth - 1)
             ELSE IF g = <<"/">> /\ open.matched
             THEN BlockComment(open.sc, depth + 1)
             ELSE BlockComment(s1, depth)

SlashArm(sc, src) ==
    LET line == next_matches(sc, "/")
        block == next_matches(sc, "*")
    IN  IF line.matched THEN LineComment(line.sc)
        ELSE IF block.matched THEN BlockComment(block.sc, 1)
        ELSE add_token(sc, "Slash", src)

UnterminatedString(sc) ==
    Push(sc, PossibleTokenErr(LoxErrorReport(sc.line_number, <<>>,
        <<"Unterminated string at line", sc.line_number, "pos", sc.lexeme_start>>)))

RECURSIVE parse_string(_, _)
parse_string(sc, src) ==
    IF sc.iter = <<>> THEN UnterminatedString(sc)
    ELSE LET g == Head(sc.iter).g
             s1 == [sc EXCEPT !.iter = Tail(sc.iter),
                              !.lexeme_current = Head(sc.iter).idx]
         IN  IF g = <<"\n">>
             THEN parse_string([s1 EXCEPT !.line_number = @ + 1], src)
             ELSE IF g = <<"\"">>
             THEN LET s2 == [s1 EXCEPT !.lexeme_start = @ + 1,
                                       !.lexeme_current = @ - 1]
                      s3 == IF ~get_lexeme_ok(s2, src) THEN Panic(s2)
                            ELSE add_literal_token(s2, "String",
                                     LitString(get_lexeme(s2, src)), src)
                  IN  IF s3.panicked THEN s3
                      ELSE [s3 EXCEPT !.lexeme_current = @ + 1,
                                      !.lexeme_start = @ - 1]
             ELSE parse_string(s1, src)

InvalidNumber(sc) ==
    Push(sc, PossibleTokenErr(LoxErrorReport(sc.line_number, <<>>,
        <<"Invalid number at line", sc.line_number, "pos", sc.lexeme_start>>)))

NumberDone(sc, src) ==
    IF ~get_lexeme_ok(sc, src) THEN Panic(sc)
    ELSE IF ~ParseF64Ok(get_lexeme(sc, src)) THEN InvalidNumber(sc)
    ELSE add_literal_token(sc, "Number",
                           LitNumber(ParseF64(get_lexeme(sc, src))), src)

\* the loop without the has_decimal test: every '.' is taken into the number
RECURSIVE NumberLoop_AnyDots(_, _, _)
NumberLoop_AnyDots(sc, has_decimal, src) ==
    IF sc.iter = <<>> THEN NumberDone(sc, src)
    ELSE LET g == Head(sc.iter).g
             s1 == [sc EXCEPT !.lexeme_current = Head(sc.iter).idx,
                              !.iter = Tail(sc.iter)]
         IN  IF g = <<".">> THEN NumberLoop_AnyDots(s1, TRUE, src)
             ELSE IF ~is_digit(g) THEN NumberDone(sc, src)
             ELSE NumberLoop_AnyDots(s1, has_decimal, src)

RECURSIVE NumberLoop(_, _, _)
NumberLoop(sc, has_decimal, src) ==
    IF sc.iter = <<>> THEN NumberDone(sc, src)
    ELSE LET g == Head(sc.iter).g
             s1 == [sc EXCEPT !.lexeme_current = Head(sc.iter).idx,
                              !.iter = Tail(sc.iter)]
         IN  IF g = <<".">>
             THEN IF has_decimal THEN NumberDone(sc, src)
                  ELSE NumberLoop(s1, TRUE, src)
             ELSE IF ~is_digit(g) THEN NumberDone(sc, src)
             ELSE NumberLoop(s1, has_decimal, src)

parse_number(sc, src) == NumberLoop(sc, FALSE, src)

IdentifierDone(sc, src) ==
    IF ~get_lexeme_ok(sc, src) THEN Panic(sc)
    ELSE LET literal == get_lexeme(sc, src)
             token_type == IF literal \in DOMAIN KEYWORDS
                           THEN KEYWORDS[literal] ELSE "Identifier"
         IN  add_literal_token(sc, token_type, LitIdentifier(literal), src)

RECURSIVE parse_identifier(_, _)
parse_identifier(sc, src) ==
    IF sc.iter # <<>> /\ is_alphanumeric(Head(sc.iter).g)
    THEN parse_identifier([sc EXCEPT !.lexeme_current = Head(sc.iter).idx,
                                     !.iter = Tail(sc.iter)], src)
    ELSE IdentifierDone(sc, src)

\* the invalid-token arm that gives up the scan: nothing is read after it
InvalidToken_Abort(sc, grapheme_idx, g) ==
    [Push(sc, PossibleTokenErr(LoxErrorReport(sc.line_number, <<>>,
        <<"Invalid token at line", sc.line_number, "pos", grapheme_idx, g>>)))
        EXCEPT !.iter = <<>>]

InvalidToken(sc, grapheme_idx, g) ==
    Push(sc, PossibleTokenErr(LoxErrorReport(sc.line_number, <<>>,
        <<"Invalid token at line", sc.line_number, "pos", grapheme_idx, g>>)))

SingleCharTokens ==
    ( "(" :> "LeftParen" ) @@ ( ")" :> "RightParen" ) @@
    ( "{" :> "LeftBrace" ) @@ ( "}" :> "RightBrace" ) @@
    ( "," :> "Comma" ) @@ ( "." :> "Dot" ) @@ ( "-" :> "Minus" ) @@
    ( "+" :> "Plus" ) @@ ( ";" :> "Semicolon" ) @@ ( "*" :> "Star" )

OneOrTwoCharTokens ==
    ( "!" :> <<"BangEqual", "Bang">> ) @@ ( "=" :> <<"EqualEqual", "Equal">> ) @@
    ( "<" :> <<"LessEqual", "Less">> ) @@ ( ">" :> <<"GreaterEqual", "Greater">> )

\* which arm of the match a grapheme takes
Arm(g) ==
    CASE Len(g) = 1 /\ g[1] \in DOMAIN SingleCharTokens -> "single"
      [] Len(g) = 1 /\ g[1] \in DOMAIN OneOrTwoCharTokens -> "one_or_two"
      [] g = <<"/">> -> "slash"
      [] g \in {<<" ">>, <<"\r">>, <<"\t">>} -> "whitespace"
      [] g = <<"\n">> -> "newline"
      [] g = <<"\"">> -> "string"
      [] OTHER -> IF is_digit(g) THEN "number"
                  ELSE IF is_alpha(g) THEN "identifier"
                  ELSE "invalid"

\* the scanner once grapheme_iter.next() has returned Some((grapheme_idx, g))
NextGrapheme(sc) ==
    [sc EXCEPT !.lexeme_start = Head(sc.iter).idx,
               !.lexeme_current = Head(sc.iter).idx,
               !.iter = Tail(sc.iter)]

\* one turn of the while let loop of scan_tokens
LoopBody(sc, src) ==
    LET grapheme_idx == Head(sc.iter).idx
        g == Head(sc.iter).g
        s == NextGrapheme(sc)
        arm == Arm(g)
    IN  CASE arm = "single" -> add_token(s, SingleCharTokens[g[1]], src)
          [] arm = "one_or_two" ->
                add_if_next_matches(s, "=", OneOrTwoCharTokens[g[1]][1],
                                    OneOrTwoCharTokens[g[1]][2], src)
          [] arm = "slash" -> SlashArm(s, src)
          [] arm = "whitespace" -> s
          [] arm = "newline" -> [s EXCEPT !.line_number = @ + 1]
          [] arm = "string" -> parse_string(s, src)
          [] arm = "number" -> parse_number(s, src)
          [] arm = "identifier" -> parse_identifier(s, src)
          [] arm = "invalid" -> InvalidToken(s, grapheme_idx, g)

\* the Eof token stamped with line 0 instead of the line reached
PushEof_LineZero(sc) ==
    Push(sc, PossibleTokenOk(Token("Eof", <<>>, None, 0)))

PushEof(sc) ==
    Push(sc, PossibleTokenOk(Token("Eof", <<>>, None, sc.line_number)))

RECURSIVE ScanLoop(_, _)
ScanLoop(sc, src) ==
    IF sc.panicked THEN sc
    ELSE IF sc.iter = <<>> THEN PushEof(sc)
    ELSE ScanLoop(LoopBody(sc, src), src)

\* Scanner::scan_tokens as a function of the source: the final scanner
scan_tokens(src) == ScanLoop(ScannerNew(src), src)

(***************************************************************************)
(* The parser.  Parser.current is 0-based as in the source, so the token   *)
(* under the cursor is toks[current + 1].  Every routine returns a record  *)
(* whose status is "ok" (with expr), "err" (with the ParseError err) or    *)
(* "panic" (an index outside the token list), and the cursor afterwards.   *)
(***************************************************************************)
ExprBinary(left, operator, right) ==
    [kind |-> "Binary", left |-> left, operator |-> operator, right |-> right]
ExprUnary(operator, right) ==
    [kind |-> "Unary", operator |-> operator, right |-> right]
ExprTernary(condition, then_branch, else_branch) ==
    [kind |-> "Ternary", condition |-> condition, then_branch |-> then_branch,
     else_branch |-> else_branch]
ExprGrouping(expr) == [kind |-> "Grouping", expr |-> expr]
ExprLiteral(value) == [kind |-> "Literal", value |-> value]

ParseOk(expr, current) == [status |-> "ok", expr |-> expr, current |-> current]
ParseErr(token, message, current) ==
    [status |-> "err", err |-> [token |-> token, message |-> message],
     current |-> current]
ParsePanic(current) == [status |-> "panic", current |-> current]

\* &self.tokens[self.current] is in range
peek_ok(toks, current) == current >= 0 /\ current + 1 <= Len(toks)

peek(toks, current) == toks[current + 1]

\* &self.tokens[self.current - 1] is in range (current - 1 underflows at 0)
get_previous_ok(toks, current) == current >= 1 /\ current <= Len(toks)

get_previous(toks, current) == toks[current]

is_at_end(toks, current) == peek(toks, current).token_type = "Eof"

check_next(toks, current, token_type) ==
    IF is_at_end(toks, current) THEN FALSE
    ELSE peek(toks, current).token_type = token_type

\* the cursor after advance()
Parser_advance(toks, current) ==
    IF ~is_at_end(toks, current) THEN current + 1 ELSE current

\* the pair (returned bool, cursor afterwards); status "panic" when an index fails
Parser_next_matches(toks, current, token_types) ==
    IF ~peek_ok(toks, current) THEN [status |-> "panic", matched |-> FALSE, current |-> current]
    ELSE IF \E t \in token_types : check_next(toks, current, t)
    THEN IF get_previous_ok(toks, Parser_advance(toks, current))
         THEN [status |-> "ok", matched |-> TRUE, current |-> Parser_advance(toks, current)]
         ELSE [status |-> "panic", matched |-> TRUE, current |-> Parser_advance(toks, current)]
    ELSE [status |-> "ok", matched |-> FALSE, current |-> current]

\* Ok(()) with the cursor moved, or the ParseError
consume(toks, current, token_type, message) ==
    IF ~peek_ok(toks, current) THEN ParsePanic(current)
    ELSE IF check_next(toks, current, token_type)
    THEN IF get_previous_ok(toks, Parser_advance(toks, current))
         THEN ParseOk(None, Parser_advance(toks, current))
         ELSE ParsePanic(Parser_advance(toks, current))
    ELSE ParseErr(peek(toks, current), message, current)

RECURSIVE expression(_, _), comma(_, _), ternary(_, _), equality(_, _),
          comparison(_, _), term(_, _), factor(_, _), unary(_, _),
          primary(_, _), CallRule(_, _, _), BinaryLoop(_, _, _, _, _),
          create_left_associative_binary_expression(_, _, _, _)

CallRule(rule, toks, current) ==
    CASE rule = "ternary" -> ternary(toks, current)
      [] rule = "comparison" -> comparison(toks, current)
      [] rule = "term" -> term(toks, current)
      [] rule = "factor" -> factor(toks, current)
      [] rule = "unary" -> unary(toks, current)

\* the loop folding to the right: the rest of the chain becomes the right
\* operand of the first operator
BinaryLoop_FoldRight(toks, expr, current, token_types, next) ==
    LET m == Parser_next_matches(toks, current, token_types)
    IN  IF m.status = "panic" THEN ParsePanic(m.current)
        ELSE IF ~m.matched THEN ParseOk(expr, current)
        ELSE LET operator == get_previous(toks, m.current)
                 right == CallRule(next, toks, m.current)
             IN  IF right.status # "ok" THEN right
                 ELSE LET rest == BinaryLoop(toks, right.expr, right.current,
                                             token_types, next)
                      IN  IF rest.status # "ok" THEN rest
                          ELSE ParseOk(ExprBinary(expr, operator, rest.expr),
                                       rest.current)

\* the while loop of create_left_associative_binary_expression
BinaryLoop(toks, expr, current, token_types, next) ==
    LET m == Parser_next_matches(toks, current, token_types)
    IN  IF m.status = "panic" THEN ParsePanic(m.current)
        ELSE IF ~m.matched THEN ParseOk(expr, current)
        ELSE LET operator == get_previous(toks, m.current)
                 right == CallRule(next, toks, m.current)
             IN  IF right.status # "ok" THEN right
                 ELSE BinaryLoop(toks, ExprBinary(expr, operator, right.expr),
                                 right.current, token_types, next)

create_left_associative_binary_expression(toks, current, token_types, next) ==
    LET first == CallRule(next, toks, current)
    IN  IF first.status # "ok" THEN first
        ELSE BinaryLoop(toks, first.expr, first.current, token_types, next)

expression(toks, current) == comma(toks, current)

comma(toks, current) ==
    create_left_associative_binary_expression(toks, current, {"Comma"}, "ternary")

\* ternary whose branches are equality-level expressions
ternary_EqualityBranches(toks, current) ==
    LET cond == equality(toks, current)
    IN  IF cond.status # "ok" THEN cond
        ELSE LET m == Parser_next_matches(toks, cond.current, {"QuestionMark"})
             IN  IF m.status = "panic" THEN ParsePanic(m.current)
                 ELSE IF ~m.matched THEN cond
                 ELSE LET then_branch == equality(toks, m.current)
                      IN  IF then_branch.status # "ok" THEN then_branch
                          ELSE LET colon == consume(toks, then_branch.current, "Colon",
                                                    "Expected ':' after then branch")
                               IN  IF colon.status # "ok" THEN colon
                                   ELSE LET else_branch == equality(toks, colon.current)
                                        IN  IF else_branch.status # "ok" THEN else_branch
                                            ELSE ParseOk(ExprTernary(cond.expr, then_branch.expr,
                                                                     else_branch.expr),
                                                         else_branch.current)

ternary(toks, current) ==
    LET cond == equality(toks, current)
    IN  IF cond.status # "ok" THEN cond
        ELSE LET m == Parser_next_matches(toks, cond.current, {"QuestionMark"})
             IN  IF m.status = "panic" THEN ParsePanic(m.current)
                 ELSE IF ~m.matched THEN cond
                 ELSE LET then_branch == expression(toks, m.current)
                      IN  IF then_branch.status # "ok" THEN then_branch
                          ELSE LET colon == consume(toks, then_branch.current, "Colon",
                                                    "Expected ':' after then branch")
                               IN  IF colon.status # "ok" THEN colon
                                   ELSE LET else_branch == expression(toks, colon.current)
                                        IN  IF else_branch.status # "ok" THEN else_branch
                                            ELSE ParseOk(ExprTernary(cond.expr, then_branch.expr,
                                                                     else_branch.expr),
                                                         else_branch.current)

equality(toks, current) ==
    create_left_associative_binary_expression(
        toks, current, {"BangEqual", "EqualEqual"}, "comparison")

\* comparison whose operands are factors: the term level is left out
comparison_NextFactor(toks, current) ==
    create_left_associative_binary_expression(
        toks, current, {"Greater", "GreaterEqual", "Less", "LessEqual"}, "factor")

comparison(toks, current) ==
    create_left_associative_binary_expression(
        toks, current, {"Greater", "GreaterEqual", "Less", "LessEqual"}, "term")

term(toks, current) ==
    create_left_associative_binary_expression(toks, current, {"Minus", "Plus"}, "factor")

factor(toks, current) ==
    create_left_associative_binary_expression(toks, current, {"Slash", "Star"}, "unary")

unary(toks, current) ==
    LET m == Parser_next_matches(toks, current, {"Bang", "Minus"})
    IN  IF m.status = "panic" THEN ParsePanic(m.current)
        ELSE IF m.matched
        THEN LET operator == get_previous(toks, m.current)
                 right == unary(toks, m.current)
             IN  IF right.status # "ok" THEN right
                 ELSE ParseOk(ExprUnary(operator, right.expr), right.current)
        ELSE primary(toks, current)

\* primary's literal arms without the advance(): the token is looked at but
\* not consumed
PrimaryAdvance_NoAdvance(toks, current) ==
    LET t == peek(toks, current).token_type
        after == current
    IN  IF ~get_previous_ok(toks, after) THEN ParsePanic(after)
        ELSE CASE t = "False" -> ParseOk(ExprLiteral(LitBoolean(FALSE)), after)
               [] t = "True" -> ParseOk(ExprLiteral(LitBoolean(TRUE)), after)
               [] t = "Nil" -> ParseOk(ExprLiteral(None), after)
               [] t = "Number" ->
                    IF ParseF64Ok(get_previous(toks, after).lexeme)
                    THEN ParseOk(ExprLiteral(LitNumber(
                             ParseF64(get_previous(toks, after).lexeme))), after)
                    ELSE ParsePanic(after)
               [] t = "String" ->
                    ParseOk(ExprLiteral(LitString(get_previous(toks, after).lexeme)),
                            after)

\* the arms of primary that advance and then read get_previous
PrimaryAdvance(toks, current) ==
    LET t == peek(toks, current).token_type
        after == Parser_advance(toks, current)
    IN  IF ~get_previous_ok(toks, after) THEN ParsePanic(after)
        ELSE CASE t = "False" -> ParseOk(ExprLiteral(LitBoolean(FALSE)), after)
               [] t = "True" -> ParseOk(ExprLiteral(LitBoolean(TRUE)), after)
               [] t = "Nil" -> ParseOk(ExprLiteral(None), after)
               [] t = "Number" ->
                    IF ParseF64Ok(get_previous(toks, after).lexeme)
                    THEN ParseOk(ExprLiteral(LitNumber(
                             ParseF64(get_previous(toks, after).lexeme))), after)
                    ELSE ParsePanic(after)
               [] t = "String" ->
                    ParseOk(ExprLiteral(LitString(get_previous(toks, after).lexeme)),
                            after)

\* primary that steps over the token it rejects before reporting it
primary_ConsumesRejected(toks, current) ==
    IF ~peek_ok(toks, current) THEN ParsePanic(current)
    ELSE LET t == peek(toks, current).token_type
         IN  IF t \in {"False", "True", "Nil", "Number", "String"}
             THEN PrimaryAdvance(toks, current)
             ELSE IF t = "LeftParen"
             THEN LET after == Parser_advance(toks, current)
                      inner == IF get_previous_ok(toks, after)
                               THEN expression(toks, after) ELSE ParsePanic(after)
                  IN  IF inner.status # "ok" THEN inner
                      ELSE LET close == consume(toks, inner.current, "RightParen",
                                                "Expect ')' after expression.")
                           IN  IF close.status # "ok" THEN close
                               ELSE ParseOk(ExprGrouping(inner.expr), close.current)
             ELSE ParseErr(peek(toks, current), "Expect expression.",
                           Parser_advance(toks, current))

primary(toks, current) ==
    IF ~peek_ok(toks, current) THEN ParsePanic(current)
    ELSE LET t == peek(toks, current).token_type
         IN  IF t \in {"False", "True", "Nil", "Number", "String"}
             THEN PrimaryAdvance(toks, current)
             ELSE IF t = "LeftParen"
             THEN LET after == Parser_advance(toks, current)
                      inner == IF get_previous_ok(toks, after)
                               THEN expression(toks, after) ELSE ParsePanic(after)
                  IN  IF inner.status # "ok" THEN inner
                      ELSE LET close == consume(toks, inner.current, "RightParen",
                                                "Expect ')' after expression.")
                           IN  IF close.status # "ok" THEN close
                               ELSE ParseOk(ExprGrouping(inner.expr), close.current)
             ELSE ParseErr(peek(toks, current), "Expect expression.", current)

\* Parser::new(tokens).parse()
parse(toks) == expression(toks, 0)

(***************************************************************************)
(* The evaluator.  A value is None (nil) or a Literal; a result is         *)
(* Ok(value) or Err(RuntimeError).                                         *)
(***************************************************************************)
EvalOk(value) == [ok |-> TRUE, value |-> value]

\* RuntimeError::new
RuntimeError_new(message) ==
    [ok |-> FALSE, err |-> [message |-> message, token |-> None]]

\* an error built without its token
with_token_NoToken(message, token) ==
    [ok |-> FALSE, err |-> [message |-> message, token |-> None]]

\* RuntimeError::with_token
with_token(message, token) ==
    [ok |-> FALSE, err |-> [message |-> message, token |-> token]]

\* the type error under another wording
operands_must_be_numbers_Reworded(operator) ==
    with_token("Operand must be a number.", operator)

operands_must_be_numbers(operator) ==
    with_token("Operands must be numbers.", operator)

FAdd(a, b) == Frac(a.n * b.d + b.n * a.d, a.d * b.d)
FSub(a, b) == Frac(a.n * b.d - b.n * a.d, a.d * b.d)
FMul(a, b) == Frac(a.n * b.n, a.d * b.d)
FDiv(a, b) == Frac(a.n * b.d, a.d * b.n)
FNeg(a) == Frac(-a.n, a.d)
\* less-than that also holds for equal numbers
FLess_OrEqual(a, b) == a.n * b.d <= b.n * a.d
FLess(a, b) == a.n * b.d < b.n * a.d
FZero(a) == a.n = 0

DigitText(k) ==
    CASE k = 0 -> "0" [] k = 1 -> "1" [] k = 2 -> "2" [] k = 3 -> "3"
      [] k = 4 -> "4" [] k = 5 -> "5" [] k = 6 -> "6" [] k = 7 -> "7"
      [] k = 8 -> "8" [] k = 9 -> "9"

RECURSIVE NatText(_)
NatText(n) ==
    IF n < 10 THEN <<DigitText(n)>>
    ELSE Append(NatText(n \div 10), DigitText(n % 10))

\* the digits after the decimal point, by long division
RECURSIVE FractionText(_, _, _)
FractionText(rem, d, room) ==
    IF rem = 0 \/ room = 0 THEN <<>>
    ELSE <<DigitText((rem * 10) \div d)>> \o FractionText((rem * 10) % d, d, room - 1)

\* the digits f64's Display can show after the point
F64FractionDigits == 16

\* Display for f64: "1" for 1.0, "0.5" for 0.5
NumberText(q) ==
    LET a == Abs(q.n)
        sign == IF q.n < 0 THEN <<"-">> ELSE <<>>
        whole == NatText(a \div q.d)
        frac == FractionText(a % q.d, q.d, F64FractionDigits)
    IN  sign \o whole \o (IF frac = <<>> THEN <<>> ELSE <<".">> \o frac)

\* a display that renders an absent value as the empty text
to_string_NilEmpty(value) ==
    CASE value.kind = "None" -> <<>>
      [] value.kind = "Identifier" -> value.val
      [] value.kind = "String" -> value.val
      [] value.kind = "Number" -> NumberText(value.val)
      [] value.kind = "Boolean" ->
            IF value.val THEN <<"t", "r", "u", "e">> ELSE <<"f", "a", "l", "s", "e">>

\* impl Display for Literal, and "nil" for None
to_string(value) ==
    CASE value.kind = "None" -> <<"n", "i", "l">>
      [] value.kind = "Identifier" -> value.val
      [] value.kind = "String" -> value.val
      [] value.kind = "Number" -> NumberText(value.val)
      [] value.kind = "Boolean" ->
            IF value.val THEN <<"t", "r", "u", "e">> ELSE <<"f", "a", "l", "s", "e">>

\* truthiness that also counts zero and the empty string as false
is_truthy_ZeroAndEmptyFalsy(literal) ==
    CASE literal.kind = "Boolean" -> literal.val
      [] literal.kind = "None" -> FALSE
      [] literal.kind = "Number" -> literal.val.n # 0
      [] literal.kind = "String" -> literal.val # <<>>
      [] OTHER -> TRUE

is_truthy(literal) ==
    CASE literal.kind = "Boolean" -> literal.val
      [] literal.kind = "None" -> FALSE
      [] OTHER -> TRUE

\* equality of the display texts instead of the values
evaluate_equal_ByText(left, right) == to_string(left) = to_string(right)

evaluate_equal(left, right) ==
    CASE left.kind = "None" /\ right.kind = "None" -> TRUE
      [] left.kind # "None" /\ right.kind = "None" -> FALSE
      [] left.kind = "None" /\ right.kind # "None" -> FALSE
      [] OTHER -> IF left.kind = right.kind THEN left.val = right.val ELSE FALSE

BothNumbers(left, right) == left.kind = "Number" /\ right.kind = "Number"

\* the match on operator.token_type of evaluate_binary, operands evaluated
BinaryOp(operator, left, right) ==
    LET t == operator.token_type
    IN  CASE t = "Minus" ->
               IF BothNumbers(left, right)
               THEN EvalOk(LitNumber(FSub(left.val, right.val)))
               ELSE operands_must_be_numbers(operator)
          [] t = "Plus" ->
               IF BothNumbers(left, right)
               THEN EvalOk(LitNumber(FAdd(left.val, right.val)))
               ELSE IF left.kind = "String"
               THEN EvalOk(LitString(left.val \o to_string(right)))
               ELSE IF right.kind = "String"
               THEN EvalOk(LitString(to_string(left) \o right.val))
               ELSE with_token("operands must be numbers or strings.", operator)
          [] t = "Slash" ->
               IF BothNumbers(left, right)
               THEN IF FZero(right.val)
                    THEN with_token("Division by zero.", operator)
                    ELSE EvalOk(LitNumber(FDiv(left.val, right.val)))
               ELSE operands_must_be_numbers(operator)
          [] t = "Star" ->
               IF BothNumbers(left, right)
               THEN EvalOk(LitNumber(FMul(left.val, right.val)))
               ELSE operands_must_be_numbers(operator)
          [] t = "Greater" ->
               IF BothNumbers(left, right)
               THEN EvalOk(LitBoolean(FLess(right.val, left.val)))
               ELSE EvalOk(LitBoolean(FALSE))
          [] t = "GreaterEqual" ->
               IF BothNumbers(left, right)
               THEN EvalOk(LitBoolean(~FLess(left.val, right.val)))
               ELSE EvalOk(LitBoolean(FALSE))
          [] t = "Less" ->
               IF BothNumbers(left, right)
               THEN EvalOk(LitBoolean(FLess(left.val, right.val)))
               ELSE EvalOk(LitBoolean(FALSE))
          [] t = "LessEqual" ->
               IF BothNumbers(left, right)
               THEN EvalOk(LitBoolean(~FLess(right.val, left.val)))
               ELSE EvalOk(LitBoolean(FALSE))
          [] t = "BangEqual" -> EvalOk(LitBoolean(~evaluate_equal(left, right)))
          [] t = "EqualEqual" -> EvalOk(LitBoolean(evaluate_equal(left, right)))
          [] OTHER -> with_token("Unexpected operator", operator)

\* the match on operator.token_type of evaluate_unary, operand evaluated
UnaryOp(operator, right) ==
    LET t == operator.token_type
    IN  CASE t = "Minus" ->
               IF right.kind = "Number" THEN EvalOk(LitNumber(FNeg(right.val)))
               ELSE operands_must_be_numbers(operator)
          [] t = "Bang" -> EvalOk(LitBoolean(~is_truthy(right)))
          [] OTHER -> with_token("Unexpected operator", operator)

RECURSIVE evaluate_expression(_), evaluate_grouping(_), evaluate_binary(_),
          evaluate_unary(_)

\* a ternary that evaluates both branches before it chooses
evaluate_expression_EagerBranches(expr) ==
    CASE expr.kind = "Binary" -> evaluate_binary(expr)
      [] expr.kind = "Grouping" -> evaluate_grouping(expr)
      [] expr.kind = "Unary" -> evaluate_unary(expr)
      [] expr.kind = "Literal" -> EvalOk(expr.value)
      [] expr.kind = "Ternary" ->
            LET condition == evaluate_expression(expr.condition)
                then_value == evaluate_expression(expr.then_branch)
                else_value == evaluate_expression(expr.else_branch)
            IN  IF ~condition.ok THEN condition
                ELSE IF ~then_value.ok THEN then_value
                ELSE IF ~else_value.ok THEN else_value
                ELSE IF is_truthy(condition.value) THEN then_value
                ELSE else_value

evaluate_expression(expr) ==
    CASE expr.kind = "Binary" -> evaluate_binary(expr)
      [] expr.kind = "Grouping" -> evaluate_grouping(expr)
      [] expr.kind = "Unary" -> evaluate_unary(expr)
      [] expr.kind = "Literal" -> EvalOk(expr.value)
      [] expr.kind = "Ternary" ->
            LET condition == evaluate_expression(expr.condition)
            IN  IF ~condition.ok THEN condition
                ELSE IF is_truthy(condition.value)
                THEN evaluate_expression(expr.then_branch)
                ELSE evaluate_expression(expr.else_branch)

evaluate_grouping(group) ==
    IF group.kind = "Grouping" THEN evaluate_expression(group.expr)
    ELSE RuntimeError_new("Unexpected expression, expected Grouping")

evaluate_binary_RightFirst(binary) ==
    IF binary.kind = "Binary"
    THEN LET right == evaluate_expression(binary.right)
         IN  IF ~right.ok THEN right
             ELSE LET left == evaluate_expression(binary.left)
                  IN  IF ~left.ok THEN left
                      ELSE BinaryOp(binary.operator, left.value, right.value)
    ELSE RuntimeError_new("Unexpected expression, expected Binary")

evaluate_binary(binary) ==
    IF binary.kind = "Binary"
    THEN LET left == evaluate_expression(binary.left)
         IN  IF ~left.ok THEN left
             ELSE LET right == evaluate_expression(binary.right)
                  IN  IF ~right.ok THEN right
                      ELSE BinaryOp(binary.operator, left.value, right.value)
    ELSE RuntimeError_new("Unexpected expression, expected Binary")

evaluate_unary(unary_expr) ==
    IF unary_expr.kind = "Unary"
    THEN LET right == evaluate_expression(unary_expr.right)
         IN  IF ~right.ok THEN right
             ELSE UnaryOp(unary_expr.operator, right.value)
    ELSE RuntimeError_new("Unexpected expression, expected Unary")

interpret(expr) == evaluate_expression(expr)

(***************************************************************************)
(* Source texts.                                                           *)
(***************************************************************************)
\* all texts of at most n code points over an alphabet
TextsUpTo(alphabet, n) == UNION {[1..k -> alphabet] : k \in 0..n}

\* the texts of the tests and of the worked examples
SrcSimpleDigits == <<"1", " ", "<", " ", "3", " ", "+", " ", "4">>
SrcComplexDecimal ==
    <<"1", ".", "2", "3", "4", ".", "5", "6", "7", ".", "1", "2", "3">>
SrcNestedComment ==
    <<"/", "*", " ", "a", " ", "/", "*", " ", "b", " ", "*", "/", " ", "c", " ",
      "*", "/", "x">>
SrcTernary ==
    <<"t", "r", "u", "e", " ", "?", " ", "1", " ", ":", " ", "(", "1", "/", "0", ")">>
SrcUnterminated == <<"\"", "a", "b", "c">>
SrcHelloPlus == <<"\"", "h", "i", "\"", " ", "+", " ", "1">>
SrcDivZero == <<"1", " ", "/", " ", "0">>
SrcLineComment == <<"1", " ", "/", "/", " ", "c", "\n", "2">>
SrcGrouping == <<"-", "(", "1", " ", "*", " ", "2", ")", " ", "=", "=", " ", "n", "i", "l">>
SrcTab == <<"\t", "1">>

SampleSources ==
    {SrcSimpleDigits, SrcComplexDecimal, SrcNestedComment, SrcTernary,
     SrcUnterminated, SrcHelloPlus, SrcDivZero, SrcLineComment, SrcGrouping,
     SrcTab}

\* the longest text of the general family
MaxLen == 3

GeneralAlphabet ==
    {".", "!", "=", "<", ">", "/", "*", " ", "\n", "\r", "\"", "1", "a", "_",
     "@", EAcute, CombiningAcute, ArabicThree}

GeneralSources == SampleSources \cup TextsUpTo(GeneralAlphabet, MaxLen)

(***************************************************************************)
(* The run driver as a state machine: one action per turn of the scanner's *)
(* loop (one per arm of its match), then the stages of run.                *)
(***************************************************************************)
InitWith(sources) ==
    /\ source \in sources
    /\ grapheme_iter = grapheme_indices(source)
    /\ line_number = 0
    /\ lexeme_start = 0
    /\ lexeme_current = 0
    /\ tokens = <<>>
    /\ pc = "scanning"
    /\ output = <<>>
    /\ parser_tokens = <<>>
    /\ parse_result = None
    /\ result = None
    /\ ReplIdle

Init == InitWith(GeneralSources)

\* the Scanner struct and the iterator, as the operators above take them
Sc ==
    [line_number |-> line_number, lexeme_start |-> lexeme_start,
     lexeme_current |-> lexeme_current, tokens |-> tokens,
     iter |-> grapheme_iter, panicked |-> FALSE]

SetScanner(s) ==
    /\ line_number' = s.line_number
    /\ lexeme_start' = s.lexeme_start
    /\ lexeme_current' = s.lexeme_current
    /\ tokens' = s.tokens
    /\ grapheme_iter' = s.iter

\* one turn of the while let loop, for a grapheme that takes the given arm
ScanTurn(arm) ==
    /\ pc = "scanning"
    /\ grapheme_iter # <<>>
    /\ Arm(Head(grapheme_iter).g) = arm
    /\ LET s == LoopBody(Sc, source)
       IN  /\ SetScanner(s)
           /\ pc' = IF s.panicked THEN "scan_panicked" ELSE "scanning"
    /\ UNCHANGED <<source, output, parser_tokens, parse_result, result>>
    /\ UNCHANGED repl

ScanSingleChar == ScanTurn("single")
ScanOneOrTwoChar == ScanTurn("one_or_two")
ScanSlash == ScanTurn("slash")
ScanWhitespace == ScanTurn("whitespace")
ScanNewline == ScanTurn("newline")
ScanString == ScanTurn("string")
ScanNumber == ScanTurn("number")
ScanIdentifier == ScanTurn("identifier")
ScanInvalid == ScanTurn("invalid")

\* the iterator is exhausted: push Eof and return the tokens
ScanEof ==
    /\ pc = "scanning"
    /\ grapheme_iter = <<>>
    /\ SetScanner(PushEof(Sc))
    /\ pc' = "scanned"
    /\ UNCHANGED <<source, output, parser_tokens, parse_result, result>>
    /\ UNCHANGED repl

IsErr(t) == ~t.ok

ErrorLine(report) == <<"Error on line", report.line_number, report.message>>

RECURSIVE ErrorLines(_)
ErrorLines(toks) ==
    IF toks = <<>> THEN <<>>
    ELSE IF IsErr(Head(toks)) THEN <<ErrorLine(Head(toks).err)>> \o ErrorLines(Tail(toks))
    ELSE ErrorLines(Tail(toks))

\* run, lines 24-34: print one line per lexical error
RunReportErrors ==
    /\ pc = "scanned"
    /\ output' = output \o ErrorLines(tokens)
    /\ pc' = "reported"
    /\ UNCHANGED <<source, grapheme_iter, line_number, lexeme_start,
                   lexeme_current, tokens, parser_tokens, parse_result, result>>
    /\ UNCHANGED repl

\* run, line 37: tokens.into_iter().map(|t| t.unwrap()).collect(); unwrap
\* panics on an Err entry
RunUnwrap ==
    /\ pc = "reported"
    /\ IF \E k \in 1..Len(tokens) : IsErr(tokens[k])
       THEN /\ pc' = "unwrap_panicked"
            /\ parser_tokens' = parser_tokens
       ELSE /\ pc' = "parsing"
            /\ parser_tokens' = [k \in 1..Len(tokens) |-> tokens[k].token]
    /\ UNCHANGED <<source, grapheme_iter, line_number, lexeme_start,
                   lexeme_current, tokens, output, parse_result, result>>
    /\ UNCHANGED repl

\* run, lines 40-46: parse, and print the parse error if there is one
RunParse ==
    /\ pc = "parsing"
    /\ LET expr == parse(parser_tokens)
       IN  /\ parse_result' = expr
           /\ pc' = CASE expr.status = "ok" -> "parsed"
                      [] expr.status = "err" -> "done"
                      [] expr.status = "panic" -> "parse_panicked"
           /\ output' = IF expr.status = "err"
                        THEN Append(output, <<"Error on line",
                                 expr.err.token.line_number, expr.err.message>>)
                        ELSE output
    /\ UNCHANGED <<source, grapheme_iter, line_number, lexeme_start,
                   lexeme_current, tokens, parser_tokens, result>>
    /\ UNCHANGED repl

\* run, lines 48-67: interpret and print the value or the runtime error
RunInterpret ==
    /\ pc = "parsed"
    /\ LET r == interpret(parse_result.expr)
       IN  /\ result' = r
           /\ output' = Append(output,
                  IF r.ok THEN <<to_string(r.value)>>
                  ELSE IF r.err.token # None
                  THEN <<r.err.message, "[line", r.err.token.line_number>>
                  ELSE <<r.err.message>>)
    /\ pc' = "done"
    /\ UNCHANGED <<source, grapheme_iter, line_number, lexeme_start,
                   lexeme_current, tokens, parser_tokens, parse_result>>
    /\ UNCHANGED repl

Next ==
    \/ ScanSingleChar
    \/ ScanOneOrTwoChar
    \/ ScanSlash
    \/ ScanWhitespace
    \/ ScanNewline
    \/ ScanString
    \/ ScanNumber
    \/ ScanIdentifier
    \/ ScanInvalid
    \/ ScanEof
    \/ RunReportErrors
    \/ RunUnwrap
    \/ RunParse
    \/ RunInterpret

Spec == Init /\ [][Next]_vars

\* the longest run of digits in the dotted-number family
MaxRun == 2

NumberDigits == {"1", "0"}

DigitRuns == UNION {[1..k -> NumberDigits] : k \in 1..MaxRun}

\* the texts d+.d+.d+.d+
DottedNumbers ==
    {a \o <<".">> \o b \o <<".">> \o c \o <<".">> \o d :
        a \in DigitRuns, b \in DigitRuns, c \in DigitRuns, d \in DigitRuns}

InitNumbers == InitWith(SampleSources \cup DottedNumbers)

SpecNumbers == InitNumbers /\ [][Next]_vars

\* the longest body of the block-comment family
MaxCommentLen == 7

CommentAlphabet == {"/", "*", "x", "\n"}

\* "/*" followed by any body: closed, nested, unterminated, followed by code
CommentSources ==
    {<<"/", "*">> \o body : body \in TextsUpTo(CommentAlphabet, MaxCommentLen)}

InitComments == InitWith(SampleSources \cup CommentSources)

SpecComments == InitComments /\ [][Next]_vars

(***************************************************************************)
(* Properties.                                                             *)
(***************************************************************************)
Last(seq) == seq[Len(seq)]

IsEofEntry(t) == t.ok /\ t.token.token_type = "Eof"

\* C1: the sequence scan_tokens returns ends with an Eof token whose lexeme
\* is empty, whose literal is absent and whose line is the scanner's line
\* counter when the input ran out; no other entry of the sequence is an Eof
\* token.
C1_EofTerminated ==
    pc = "scanned" =>
        /\ tokens # <<>>
        /\ Last(tokens) = PossibleTokenOk(Token("Eof", <<>>, None, line_number))
        /\ \A k \in 1..(Len(tokens) - 1) : ~IsEofEntry(tokens[k])

\* scan_tokens has returned for a text of several lines with a lexical error
C1_Witness ==
    /\ pc = "scanned"
    /\ line_number > 0
    /\ \E k \in 1..Len(tokens) : IsErr(tokens[k])

Terminal == pc \in {"done", "scan_panicked", "unwrap_panicked", "parse_panicked"}

AllOk(toks) == \A k \in 1..Len(toks) : toks[k].ok

\* the Ok entries of a scanner output, unwrapped, in their order
RECURSIVE OkTokens(_)
OkTokens(toks) ==
    IF toks = <<>> THEN <<>>
    ELSE IF Head(toks).ok THEN <<Head(toks).token>> \o OkTokens(Tail(toks))
    ELSE OkTokens(Tail(toks))

\* C2: the full pipeline on `true ? 1 : (1/0)` ends with the value
\* Number(1.0): no lexical error, no parse error, no runtime error.
C2_TernaryPipeline ==
    (source = SrcTernary /\ Terminal) =>
        /\ pc = "done"
        /\ AllOk(tokens)
        /\ parse_result.status = "ok"
        /\ result = EvalOk(LitNumber(Frac(1, 1)))

\* C3: when the scanner's output holds lexical errors, run prints one line
\* "Error on line N: <message>" per error, drops the error entries and hands
\* the remaining tokens, in order, to the parser; the pass is never aborted.
C3_LexErrorsFiltered ==
    (pc \notin {"scanning", "scan_panicked", "scanned", "reported"}
        /\ ~AllOk(tokens)) =>
        /\ pc # "unwrap_panicked"
        /\ SubSeq(output, 1, Len(ErrorLines(tokens))) = ErrorLines(tokens)
        /\ parser_tokens = OkTokens(tokens)

NoQuoteIn(iter) == \A k \in 1..Len(iter) : iter[k].g # <<"\"">>

\* the scanner's loop is at an opening quote that has no closing quote
AtUnterminatedString ==
    /\ pc = "scanning"
    /\ grapheme_iter # <<>>
    /\ Head(grapheme_iter).g = <<"\"">>
    /\ NoQuoteIn(Tail(grapheme_iter))

\* C4: when the input ends inside a string literal the scanner emits exactly
\* one lexical error for that string, tagged with the line of the opening
\* quote (also when the string spans several lines), and no String token.
C4_UnterminatedStringLine ==
    [][AtUnterminatedString =>
          /\ Len(tokens') = Len(tokens) + 1
          /\ SubSeq(tokens', 1, Len(tokens)) = tokens
          /\ IsErr(Last(tokens'))
          /\ Last(tokens').err.line_number = line_number]_vars

RECURSIVE Concat(_)
Concat(graphemes) ==
    IF graphemes = <<>> THEN <<>> ELSE Head(graphemes).g \o Concat(Tail(graphemes))

\* text is made of whole graphemes of src that follow one another
IsGraphemeRun(text, src) ==
    LET gs == grapheme_indices(src)
    IN  \/ text = <<>>
        \/ \E i \in 1..Len(gs) : \E j \in i..Len(gs) : text = Concat(SubSeq(gs, i, j))

\* C5: every lexeme the scanner extracts starts and ends on grapheme-cluster
\* boundaries of the source, and slicing the source never fails.
C5_LexemesOnGraphemeBoundaries ==
    /\ pc # "scan_panicked"
    /\ \A k \in 1..Len(tokens) :
          tokens[k].ok => IsGraphemeRun(tokens[k].token.lexeme, source)

\* the k-th position of a '.' in text, counted from the left
DotPositions(text) == {k \in 1..Len(text) : text[k] = "."}

SecondDot(text) ==
    CHOOSE k \in DotPositions(text) :
        Cardinality({j \in DotPositions(text) : j < k}) = 1

IsDottedNumber(text) ==
    /\ text # <<>>
    /\ \A k \in 1..Len(text) : text[k] \in Digits \cup {"."}
    /\ Cardinality(DotPositions(text)) = 3
    /\ text[1] # "." /\ text[Len(text)] # "."
    /\ \A k \in 1..(Len(text) - 1) : ~(text[k] = "." /\ text[k + 1] = ".")

\* C6: a text d+.d+.d+.d+ scans to Number(first d+.d+), Dot, Number(second
\* d+.d+), Eof: the second decimal point ends the number and is a token of
\* its own; never a single token, never a lexical error.
C6_SecondDotEndsNumber ==
    (pc = "scanned" /\ IsDottedNumber(source)) =>
        LET first == SubSeq(source, 1, SecondDot(source) - 1)
            second == SubSeq(source, SecondDot(source) + 1, Len(source))
        IN  tokens = <<PossibleTokenOk(Token("Number", first,
                                             LitNumber(ParseF64(first)), 0)),
                       PossibleTokenOk(Token("Dot", <<".">>, None, 0)),
                       PossibleTokenOk(Token("Number", second,
                                             LitNumber(ParseF64(second)), 0)),
                       PossibleTokenOk(Token("Eof", <<>>, None, 0))>>

\* "1.234.567.123" has been scanned
C6_Witness ==
    /\ pc = "scanned"
    /\ source = SrcComplexDecimal
    /\ Len(tokens) = 4
    /\ tokens[1].token.lexeme = <<"1", ".", "2", "3", "4">>
    /\ tokens[3].token.lexeme = <<"5", "6", "7", ".", "1", "2", "3">>

StartsWith(iter, a, b) ==
    Len(iter) >= 2 /\ iter[1].g = <<a>> /\ iter[2].g = <<b>>

\* what is left of the input after a block comment entered at the given
\* depth: "/*" adds one to the depth, "*/" takes one away, the comment ends
\* with the "*/" that brings the depth to zero (or with the input)
RECURSIVE AfterComment(_, _)
AfterComment(iter, depth) ==
    IF depth = 0 THEN iter
    ELSE IF iter = <<>> THEN <<>>
    ELSE IF StartsWith(iter, "*", "/") THEN AfterComment(SubSeq(iter, 3, Len(iter)), depth - 1)
    ELSE IF StartsWith(iter, "/", "*") THEN AfterComment(SubSeq(iter, 3, Len(iter)), depth + 1)
    ELSE AfterComment(Tail(iter), depth)

\* the scanner's loop is at the "/*" that opens a block comment
AtBlockComment ==
    /\ pc = "scanning"
    /\ StartsWith(grapheme_iter, "/", "*")

\* C7: inside a block comment every further "/*" raises the nesting depth
\* and every "*/" lowers it; no token and no error is emitted for the
\* comment, and scanning resumes with the character right after the "*/"
\* that brings the depth back to zero, so `/* a /* b */ c */x` scans to
\* exactly Identifier "x", Eof.
C7_NestedBlockComment ==
    /\ [][AtBlockComment =>
             /\ tokens' = tokens
             /\ grapheme_iter' = AfterComment(SubSeq(grapheme_iter, 3, Len(grapheme_iter)), 1)
             /\ pc' = "scanning"]_vars
    /\ []((pc = "scanned" /\ source = SrcNestedComment) =>
             tokens = <<PossibleTokenOk(Token("Identifier", <<"x">>,
                                              LitIdentifier(<<"x">>), 0)),
                        PossibleTokenOk(Token("Eof", <<>>, None, 0))>>)

\* a comment with a nested comment inside has been skipped and the scan has
\* gone on with the identifier behind it
C7_Witness ==
    /\ pc = "scanned"
    /\ source = SrcNestedComment
    /\ Len(tokens) = 2
    /\ tokens[1].ok
    /\ tokens[1].token.token_type = "Identifier"

\* the scanner's loop is at a grapheme that starts no token
AtInvalid ==
    /\ pc = "scanning"
    /\ grapheme_iter # <<>>
    /\ Arm(Head(grapheme_iter).g) = "invalid"

\* the source with the grapheme at the head of the iterator made a space
HeadAsSpace ==
    LET k == CHOOSE j \in 1..Len(source) :
                 OffsetOf(source, j) = Head(grapheme_iter).idx
    IN  SubSeq(source, 1, k - 1) \o <<" ">>
        \o SubSeq(source, k + Len(Head(grapheme_iter).g), Len(source))

\* what a scan leaves for the parser: the Ok tokens, or the fact of a panic
ScanOutcome(src) ==
    LET s == scan_tokens(src)
    IN  IF s.panicked THEN <<[panicked |-> TRUE]>> ELSE OkTokens(s.tokens)

\* C8: a character that starts no token, met where a token could start,
\* adds exactly one lexical error at that place of the output, tagged with
\* the current line; scanning goes on with the next character, and the
\* tokens of the whole scan are those of the text with a space in its place.
C8_InvalidCharacter ==
    /\ [][AtInvalid =>
             /\ Len(tokens') = Len(tokens) + 1
             /\ SubSeq(tokens', 1, Len(tokens)) = tokens
             /\ IsErr(Last(tokens'))
             /\ Last(tokens').err.line_number = line_number
             /\ Last(tokens').err.message[1] = "Invalid token at line"
             /\ line_number' = line_number
             /\ grapheme_iter' = Tail(grapheme_iter)
             /\ pc' = "scanning"]_vars
    /\ [](AtInvalid => ScanOutcome(source) = ScanOutcome(HeadAsSpace))

\* an invalid character has been reported on a later line and a token was
\* scanned behind it
C8_Witness ==
    /\ pc = "scanned"
    /\ Len(tokens) >= 3
    /\ \E k \in 1..(Len(tokens) - 2) :
          /\ IsErr(tokens[k])
          /\ tokens[k].err.message[1] = "Invalid token at line"
          /\ tokens[k].err.line_number > 0
          /\ tokens[k + 1].ok

\* the scanner's loop is at one of ! = < >
AtOperator ==
    /\ pc = "scanning"
    /\ grapheme_iter # <<>>
    /\ Head(grapheme_iter).g \in {<<"!">>, <<"=">>, <<"<">>, <<">">>}

FollowedByEqual == Len(grapheme_iter) >= 2 /\ grapheme_iter[2].g = <<"=">>

TwoCharKind(c) ==
    CASE c = "!" -> "BangEqual" [] c = "=" -> "EqualEqual"
      [] c = "<" -> "LessEqual" [] c = ">" -> "GreaterEqual"

OneCharKind(c) ==
    CASE c = "!" -> "Bang" [] c = "=" -> "Equal"
      [] c = "<" -> "Less" [] c = ">" -> "Greater"

Kinds(toks) == [k \in 1..Len(toks) |-> IF toks[k].ok THEN toks[k].token.token_type ELSE "Err"]

\* C9: one of ! = < > immediately followed by = gives one two-character
\* token whose lexeme is both characters, and both are consumed; otherwise
\* the one-character token is emitted and one character consumed.  So `===`
\* scans to EqualEqual, Equal and `<==` to LessEqual, Equal.
C9_MaximalMunch ==
    /\ [][AtOperator =>
             LET c == Head(grapheme_iter).g[1]
             IN  IF FollowedByEqual
                 THEN /\ tokens' = Append(tokens, PossibleTokenOk(
                              Token(TwoCharKind(c), <<c, "=">>, None, line_number)))
                      /\ grapheme_iter' = SubSeq(grapheme_iter, 3, Len(grapheme_iter))
                 ELSE /\ tokens' = Append(tokens, PossibleTokenOk(
                              Token(OneCharKind(c), <<c>>, None, line_number)))
                      /\ grapheme_iter' = Tail(grapheme_iter)]_vars
    /\ []((pc = "scanned" /\ source = <<"=", "=", "=">>) =>
             Kinds(tokens) = <<"EqualEqual", "Equal", "Eof">>)
    /\ []((pc = "scanned" /\ source = <<"<", "=", "=">>) =>
             Kinds(tokens) = <<"LessEqual", "Equal", "Eof">>)

\* `<==` has been scanned to LessEqual "<=", Equal "=", Eof
C9_Witness ==
    /\ pc = "scanned"
    /\ source = <<"<", "=", "=">>
    /\ Len(tokens) = 3
    /\ tokens[1].token.lexeme = <<"<", "=">>
    /\ tokens[2].token.lexeme = <<"=">>

\* the scanner's loop is at a letter or an underscore
AtIdentifier ==
    /\ pc = "scanning"
    /\ grapheme_iter # <<>>
    /\ is_alpha(Head(grapheme_iter).g)

\* the length of the longest run of letters, digits and underscores at the
\* head of the iterator
RECURSIVE RunLength(_)
RunLength(iter) ==
    IF iter # <<>> /\ is_alphanumeric(Head(iter).g) THEN 1 + RunLength(Tail(iter))
    ELSE 0

\* C10: a maximal run of letters, digits and underscores that starts with a
\* letter or an underscore yields exactly one token: a keyword token when
\* the whole text is one of the 16 reserved words, an Identifier token
\* otherwise; its literal is Identifier(text) and its lexeme is the text.
C10_IdentifierOrKeyword ==
    [][AtIdentifier =>
          LET n == RunLength(grapheme_iter)
              text == Concat(SubSeq(grapheme_iter, 1, n))
              kind == IF text \in DOMAIN KEYWORDS THEN KEYWORDS[text]
                      ELSE "Identifier"
          IN  /\ Cardinality(DOMAIN KEYWORDS) = 16
              /\ tokens' = Append(tokens, PossibleTokenOk(
                     Token(kind, text, LitIdentifier(text), line_number)))
              /\ grapheme_iter' = SubSeq(grapheme_iter, n + 1, Len(grapheme_iter))
              /\ pc' = "scanning"]_vars

(***************************************************************************)
(* Token lists for the parser, built as the scanner builds its tokens.     *)
(***************************************************************************)
OperatorLexeme ==
    ( "LeftParen" :> <<"(">> ) @@ ( "RightParen" :> <<")">> ) @@
    ( "LeftBrace" :> <<"{">> ) @@ ( "RightBrace" :> <<"}">> ) @@
    ( "Comma" :> <<",">> ) @@ ( "Dot" :> <<".">> ) @@ ( "Minus" :> <<"-">> ) @@
    ( "Plus" :> <<"+">> ) @@ ( "Semicolon" :> <<";">> ) @@
    ( "Slash" :> <<"/">> ) @@ ( "Star" :> <<"*">> ) @@
    ( "QuestionMark" :> <<"?">> ) @@ ( "Colon" :> <<":">> ) @@
    ( "Bang" :> <<"!">> ) @@ ( "BangEqual" :> <<"!", "=">> ) @@
    ( "Equal" :> <<"=">> ) @@ ( "EqualEqual" :> <<"=", "=">> ) @@
    ( "Greater" :> <<">">> ) @@ ( "GreaterEqual" :> <<">", "=">> ) @@
    ( "Less" :> <<"<">> ) @@ ( "LessEqual" :> <<"<", "=">> )

\* a token without its line: what add_token and add_literal_token store
ShapeOperator(token_type) ==
    [token_type |-> token_type, lexeme |-> OperatorLexeme[token_type],
     literal |-> None]
ShapeNumber(text) ==
    [token_type |-> "Number", lexeme |-> text, literal |-> LitNumber(ParseF64(text))]
ShapeString(text) ==
    [token_type |-> "String", lexeme |-> text, literal |-> LitString(text)]
ShapeWord(text) ==
    [token_type |-> IF text \in DOMAIN KEYWORDS THEN KEYWORDS[text] ELSE "Identifier",
     lexeme |-> text, literal |-> LitIdentifier(text)]

\* the token list of a text that has the k-th token on line k - 1, with the
\* Eof token the scanner appends
Place(shapes) ==
    [k \in 1..Len(shapes) |->
        Token(shapes[k].token_type, shapes[k].lexeme, shapes[k].literal, k - 1)]
    \o <<Token("Eof", <<>>, None, Len(shapes))>>

WordNil == <<"n", "i", "l">>
WordTrue == <<"t", "r", "u", "e">>
WordFalse == <<"f", "a", "l", "s", "e">>

\* the binary operators, each with the level of the rule that matches it
BinaryLevel ==
    ( "Comma" :> "comma" ) @@
    ( "BangEqual" :> "equality" ) @@ ( "EqualEqual" :> "equality" ) @@
    ( "Greater" :> "comparison" ) @@ ( "GreaterEqual" :> "comparison" ) @@
    ( "Less" :> "comparison" ) @@ ( "LessEqual" :> "comparison" ) @@
    ( "Minus" :> "term" ) @@ ( "Plus" :> "term" ) @@
    ( "Slash" :> "factor" ) @@ ( "Star" :> "factor" )

BinaryOperators == DOMAIN BinaryLevel

UnaryOperators == {"Bang", "Minus"}

\* the tokens primary turns into a literal
OperandShapes == {ShapeNumber(<<"1">>), ShapeString(<<"a">>), ShapeWord(WordNil)}

\* a op1 b op2 c
TwoOperatorTexts ==
    {<<a, ShapeOperator(op1), b, ShapeOperator(op2), c>> :
        a \in OperandShapes, b \in OperandShapes, c \in OperandShapes,
        op1 \in BinaryOperators, op2 \in BinaryOperators}

\* u a op b and a op u b
UnaryTexts ==
    {<<ShapeOperator(u), a, ShapeOperator(op), b>> :
        u \in UnaryOperators, a \in OperandShapes, b \in OperandShapes,
        op \in BinaryOperators}
    \cup
    {<<a, ShapeOperator(op), ShapeOperator(u), b>> :
        u \in UnaryOperators, a \in OperandShapes, b \in OperandShapes,
        op \in BinaryOperators}

\* the most operators of a chain within one level
MaxChain == 3

\* the k-th operand of a chain: the number k
ChainOperand(k) == ShapeNumber(NatText(k))

\* 1 op 2 op 3 ... with every operator of one level
ChainText(ops) ==
    [k \in 1..(2 * Len(ops) + 1) |->
        IF k % 2 = 1 THEN ChainOperand((k + 1) \div 2)
        ELSE ShapeOperator(ops[k \div 2])]

LevelOperators(level) == {op \in BinaryOperators : BinaryLevel[op] = level}

ChainTexts ==
    UNION {{ChainText(ops) : ops \in [1..n -> LevelOperators(level)]} :
              n \in 1..MaxChain,
              level \in {"comma", "equality", "comparison", "term", "factor"}}

\* texts around one or two ternaries, the operands being 1, 2, 3, ...
TernaryText(kinds) ==
    [k \in 1..(2 * Len(kinds) + 1) |->
        IF k % 2 = 1 THEN ChainOperand((k + 1) \div 2)
        ELSE ShapeOperator(kinds[k \div 2])]

\* every way to put two or four of ",", "?", ":" and one binary operator
\* between the operands
TernaryJoiners == {"Comma", "QuestionMark", "Colon", "EqualEqual", "Plus"}

TernaryTexts ==
    {TernaryText(kinds) : kinds \in [1..2 -> TernaryJoiners]}
    \cup {TernaryText(kinds) : kinds \in [1..3 -> TernaryJoiners]}
    \cup {TernaryText(kinds) : kinds \in [1..4 -> TernaryJoiners]}

\* the most tokens of a text of the short family
MaxTokens == 4

ShortShapes ==
    {ShapeNumber(<<"1">>), ShapeWord(WordTrue), ShapeWord(<<"x">>),
     ShapeOperator("LeftParen"), ShapeOperator("RightParen"),
     ShapeOperator("Minus"), ShapeOperator("Plus"),
     ShapeOperator("QuestionMark"), ShapeOperator("Colon")}

\* every text of at most MaxTokens tokens over the short alphabet
ShortTexts == TextsUpTo(ShortShapes, MaxTokens)

\* every token type but Eof
TokenTypes ==
    DOMAIN OperatorLexeme \cup {"Identifier", "String", "Number"}
    \cup {KEYWORDS[w] : w \in DOMAIN KEYWORDS}

ShapeOfType(token_type) ==
    CASE token_type \in DOMAIN OperatorLexeme -> ShapeOperator(token_type)
      [] token_type = "Identifier" -> ShapeWord(<<"x">>)
      [] token_type = "String" -> ShapeString(<<"a">>)
      [] token_type = "Number" -> ShapeNumber(<<"1">>)
      [] OTHER -> ShapeWord(CHOOSE w \in DOMAIN KEYWORDS : KEYWORDS[w] = token_type)

\* one token of each type where an operand is due: first, after a binary
\* operator, after a unary operator, after "("
OperandPositionTexts ==
    UNION {{<<ShapeOfType(t)>>,
            <<ShapeNumber(<<"1">>), ShapeOperator("Star"), ShapeOfType(t)>>,
            <<ShapeOperator("Bang"), ShapeOfType(t)>>,
            <<ShapeOperator("LeftParen"), ShapeOfType(t)>>} : t \in TokenTypes}

\* the scanner's tokens for the sample texts that scan without an error
ScannedSamples ==
    {OkTokens(scan_tokens(src).tokens) :
        src \in {SrcSimpleDigits, SrcHelloPlus, SrcDivZero, SrcGrouping,
                 SrcLineComment}}

ParserInputs ==
    {Place(t) : t \in TwoOperatorTexts \cup UnaryTexts \cup ChainTexts
                      \cup TernaryTexts \cup ShortTexts \cup OperandPositionTexts}
    \cup ScannedSamples

\* Parser::new(tokens): the parser is handed a token list directly
InitParser ==
    /\ source = <<>>
    /\ grapheme_iter = <<>>
    /\ line_number = 0
    /\ lexeme_start = 0
    /\ lexeme_current = 0
    /\ tokens = <<>>
    /\ pc = "parsing"
    /\ output = <<>>
    /\ parser_tokens \in ParserInputs
    /\ parse_result = None
    /\ result = None
    /\ ReplIdle

NextParser ==
    \/ RunParse
    \/ RunInterpret

SpecParser == InitParser /\ [][NextParser]_vars

(***************************************************************************)
(* Expression trees for the evaluator.                                     *)
(***************************************************************************)
WordHello == <<"h", "e", "l", "l", "o">>

\* the largest whole number among the literal operands
MaxNumber == 2

EvalValues ==
    {None, LitBoolean(TRUE), LitBoolean(FALSE), LitNumber(Frac(1, 2)),
     LitNumber(Frac(-1, 1)), LitString(<<>>), LitString(WordHello),
     LitString(<<"1">>)}
    \cup {LitNumber(Frac(k, 1)) : k \in 0..MaxNumber}

\* an operator token as the scanner stores it
OperatorToken(token_type, line) ==
    Token(token_type, OperatorLexeme[token_type], None, line)

NumberLeaf(k) == ExprLiteral(LitNumber(Frac(k, 1)))

\* 1 / 0, with its operator on line 1
TreeDivideByZero ==
    ExprBinary(NumberLeaf(1), OperatorToken("Slash", 1), NumberLeaf(0))

\* operands that are not literals: a failing division, a computed zero, a
\* failing negation, a negated nil, a ternary that skips a failing branch
EvalComposites ==
    {TreeDivideByZero,
     ExprGrouping(ExprBinary(NumberLeaf(1), OperatorToken("Minus", 1), NumberLeaf(1))),
     ExprUnary(OperatorToken("Minus", 1), ExprLiteral(LitString(<<"a">>))),
     ExprUnary(OperatorToken("Bang", 1), ExprLiteral(None)),
     ExprTernary(ExprLiteral(LitBoolean(TRUE)), NumberLeaf(1), TreeDivideByZero)}

\* values that read like a falsy one: an Identifier, and the Strings "false"
\* and "nil"
WordValues ==
    {LitIdentifier(<<"f", "o", "o">>), LitIdentifier(WordFalse),
     LitString(WordFalse), LitString(WordNil)}

EvalOperands == {ExprLiteral(v) : v \in EvalValues} \cup EvalComposites

EvalTrees ==
    EvalOperands
    \cup {ExprBinary(l, OperatorToken(op, 0), r) :
             l \in EvalOperands, r \in EvalOperands, op \in BinaryOperators}
    \cup {ExprUnary(OperatorToken(op, 0), r) :
             r \in EvalOperands, op \in UnaryOperators}
    \cup {ExprGrouping(e) : e \in EvalOperands}
    \cup {ExprTernary(c, t, e) :
             c \in EvalOperands, t \in EvalOperands, e \in EvalOperands}
    \cup {ExprUnary(OperatorToken("Bang", 0), ExprLiteral(v)) : v \in WordValues}
    \cup {ExprTernary(ExprLiteral(v), NumberLeaf(1), NumberLeaf(0)) : v \in WordValues}

\* interpret(&expr): the evaluator is handed a tree directly
InitEval ==
    /\ source = <<>>
    /\ grapheme_iter = <<>>
    /\ line_number = 0
    /\ lexeme_start = 0
    /\ lexeme_current = 0
    /\ tokens = <<>>
    /\ pc = "parsed"
    /\ output = <<>>
    /\ parser_tokens = <<>>
    /\ parse_result \in {ParseOk(tree, 0) : tree \in EvalTrees}
    /\ result = None
    /\ ReplIdle

NextEval == RunInterpret

SpecEval == InitEval /\ [][NextEval]_vars

(***************************************************************************)
(* Properties of the parser.                                               *)
(***************************************************************************)
\* the ladder of the grammar, loosest binding first
LevelRank ==
    ( "comma" :> 1 ) @@ ( "ternary" :> 2 ) @@ ( "equality" :> 3 ) @@
    ( "comparison" :> 4 ) @@ ( "term" :> 5 ) @@ ( "factor" :> 6 ) @@
    ( "unary" :> 7 )

Rank(operator) == LevelRank[BinaryLevel[operator.token_type]]

IsOperandToken(t) == t.token_type \in {"Number", "String", "Nil", "True", "False"}

IsBinaryToken(t) == t.token_type \in BinaryOperators

IsUnaryToken(t) == t.token_type \in UnaryOperators

\* the Literal node an operand token stands for
AtomExpr(t) ==
    CASE t.token_type \in {"Number", "String"} -> ExprLiteral(t.literal)
      [] t.token_type = "Nil" -> ExprLiteral(None)
      [] t.token_type = "True" -> ExprLiteral(LitBoolean(TRUE))
      [] t.token_type = "False" -> ExprLiteral(LitBoolean(FALSE))

\* a op1 b op2 c Eof
IsTwoOperatorText(toks) ==
    /\ Len(toks) = 6
    /\ \A k \in {1, 3, 5} : IsOperandToken(toks[k])
    /\ \A k \in {2, 4} : IsBinaryToken(toks[k])
    /\ toks[6].token_type = "Eof"

GroupedRight(toks) ==
    ExprBinary(AtomExpr(toks[1]), toks[2],
               ExprBinary(AtomExpr(toks[3]), toks[4], AtomExpr(toks[5])))

GroupedLeft(toks) ==
    ExprBinary(ExprBinary(AtomExpr(toks[1]), toks[2], AtomExpr(toks[3])),
               toks[4], AtomExpr(toks[5]))

\* u a op b Eof
IsUnaryFirstText(toks) ==
    /\ Len(toks) = 5
    /\ IsUnaryToken(toks[1]) /\ IsOperandToken(toks[2])
    /\ IsBinaryToken(toks[3]) /\ IsOperandToken(toks[4])
    /\ toks[5].token_type = "Eof"

\* a op u b Eof
IsUnarySecondText(toks) ==
    /\ Len(toks) = 5
    /\ IsOperandToken(toks[1]) /\ IsBinaryToken(toks[2])
    /\ IsUnaryToken(toks[3]) /\ IsOperandToken(toks[4])
    /\ toks[5].token_type = "Eof"

TokSimpleDigits == OkTokens(scan_tokens(SrcSimpleDigits).tokens)

\* C11: the parser respects the ladder comma < equality < comparison < term
\* < factor < unary.  For operand tokens a, b, c and binary operators op1,
\* op2 of different levels, a op1 b op2 c parses as a op1 (b op2 c) when op2
\* binds tighter and as (a op1 b) op2 c when op1 binds tighter; a unary
\* operator takes only the operand next to it; 1 < 3 + 4 parses as
\* 1 < (3 + 4) and evaluates to Boolean(true).
C11_PrecedenceLadder ==
    pc # "parsing" =>
        /\ (IsTwoOperatorText(parser_tokens)
              /\ Rank(parser_tokens[2]) < Rank(parser_tokens[4])) =>
                parse_result = ParseOk(GroupedRight(parser_tokens), 5)
        /\ (IsTwoOperatorText(parser_tokens)
              /\ Rank(parser_tokens[2]) > Rank(parser_tokens[4])) =>
                parse_result = ParseOk(GroupedLeft(parser_tokens), 5)
        /\ IsUnaryFirstText(parser_tokens) =>
                parse_result =
                    ParseOk(ExprBinary(ExprUnary(parser_tokens[1],
                                                 AtomExpr(parser_tokens[2])),
                                       parser_tokens[3],
                                       AtomExpr(parser_tokens[4])), 4)
        /\ IsUnarySecondText(parser_tokens) =>
                parse_result =
                    ParseOk(ExprBinary(AtomExpr(parser_tokens[1]),
                                       parser_tokens[2],
                                       ExprUnary(parser_tokens[3],
                                                 AtomExpr(parser_tokens[4]))), 4)
        /\ parser_tokens = TokSimpleDigits =>
                /\ parse_result = ParseOk(GroupedRight(parser_tokens), 5)
                /\ pc = "done" => result = EvalOk(LitBoolean(TRUE))

\* 1 < 3 + 4 has been parsed as 1 < (3 + 4) and evaluated
C11_Witness ==
    /\ pc = "done"
    /\ parser_tokens = TokSimpleDigits
    /\ parse_result.status = "ok"
    /\ parse_result.expr.right.kind = "Binary"
    /\ result.ok

\* the number of operators of a text operand (operator operand)* Eof
OperatorCount(toks) == (Len(toks) - 2) \div 2

\* a op b op c ... Eof with every operator matched by the same rule
IsLevelChain(toks) ==
    /\ Len(toks) >= 4
    /\ Len(toks) % 2 = 0
    /\ toks[Len(toks)].token_type = "Eof"
    /\ \A k \in 1..(Len(toks) - 1) :
          IF k % 2 = 1 THEN IsOperandToken(toks[k]) ELSE IsBinaryToken(toks[k])
    /\ \A k \in 1..OperatorCount(toks) : Rank(toks[2 * k]) = Rank(toks[2])

\* the tree of the first n operators, folded to the left
RECURSIVE LeftFold(_, _)
LeftFold(toks, n) ==
    IF n = 0 THEN AtomExpr(toks[1])
    ELSE ExprBinary(LeftFold(toks, n - 1), toks[2 * n], AtomExpr(toks[2 * n + 1]))

\* C12: within one precedence level a chain of n operators folds left:
\* a op b op c builds Binary(Binary(a, op, b), op, c), one Binary node per
\* matched operator, each holding the operator token (type, lexeme, line)
\* matched at its position.
C12_LeftAssociative ==
    (pc # "parsing" /\ IsLevelChain(parser_tokens)) =>
        parse_result = ParseOk(LeftFold(parser_tokens, OperatorCount(parser_tokens)),
                               Len(parser_tokens) - 1)

\* a chain of MaxChain operators of one level has been parsed into nested
\* Binary nodes
C12_Witness ==
    /\ pc # "parsing"
    /\ IsLevelChain(parser_tokens)
    /\ OperatorCount(parser_tokens) >= 3
    /\ parser_tokens[2].token_type # parser_tokens[4].token_type
    /\ parse_result.status = "ok"
    /\ parse_result.expr.left.left.kind = "Binary"

\* operand (joiner operand)* Eof, whatever the joiners are
IsJoinedText(toks) ==
    /\ Len(toks) >= 4
    /\ Len(toks) % 2 = 0
    /\ toks[Len(toks)].token_type = "Eof"
    /\ \A k \in 1..(Len(toks) - 1) :
          IF k % 2 = 1 THEN IsOperandToken(toks[k]) ELSE ~IsOperandToken(toks[k])

\* the token types between the operands
Joiners(toks) == [k \in 1..OperatorCount(toks) |-> toks[2 * k].token_type]

\* the k-th operand of a joined text, as a Literal node
Operand(toks, k) == AtomExpr(toks[2 * k - 1])

\* the whole text was parsed into this tree
ParsedWhole(tree) == parse_result = ParseOk(tree, Len(parser_tokens) - 1)

RECURSIVE FirstRejectedOperand(_, _, _, _)
FirstRejectedOperand(toks, k, operand_due, open) ==
    LET t == toks[k].token_type
        top == IF open = <<>> THEN "none" ELSE open[Len(open)]
        popped == IF open = <<>> THEN <<>> ELSE SubSeq(open, 1, Len(open) - 1)
    IN  IF operand_due
        THEN CASE t \in UnaryOperators ->
                      FirstRejectedOperand(toks, k + 1, TRUE, open)
               [] t \in {"Number", "String", "True", "False", "Nil"} ->
                      FirstRejectedOperand(toks, k + 1, FALSE, open)
               [] t = "LeftParen" ->
                      FirstRejectedOperand(toks, k + 1, TRUE, Append(open, "("))
               [] OTHER -> k
        ELSE CASE t \in BinaryOperators ->
                      FirstRejectedOperand(toks, k + 1, TRUE, open)
               [] t = "QuestionMark" ->
                      FirstRejectedOperand(toks, k + 1, TRUE, Append(open, "?"))
               [] t = "Colon" /\ top = "?" ->
                      FirstRejectedOperand(toks, k + 1, TRUE, popped)
               [] t = "RightParen" /\ top = "(" ->
                      FirstRejectedOperand(toks, k + 1, FALSE, popped)
               [] OTHER -> 0

RejectedAt == FirstRejectedOperand(parser_tokens, 1, TRUE, <<>>)

\* C14: when the parser needs a primary expression and the current token is
\* none of Number, String, true, false, nil or "(" (the Eof of an empty input
\* included), parse returns the ParseError "Expect expression." whose token is
\* that token; the cursor stays on it, no tree is produced and nothing is
\* evaluated.  In every other case parse returns no such error.
C14_ExpectExpression ==
    pc # "parsing" =>
        /\ RejectedAt > 0 =>
              /\ parse_result = ParseErr(parser_tokens[RejectedAt],
                                         "Expect expression.", RejectedAt - 1)
              /\ pc = "done"
              /\ result = None
        /\ RejectedAt = 0 =>
              ~(parse_result.status = "err"
                  /\ parse_result.err.message = "Expect expression.")
        /\ parser_tokens = <<Token("Eof", <<>>, None, 0)>> => RejectedAt = 1

\* the parser has rejected a token that is not Eof, after consuming others
C14_Witness ==
    /\ pc = "done"
    /\ parse_result.status = "err"
    /\ parse_result.err.message = "Expect expression."
    /\ parse_result.err.token.token_type = "RightParen"
    /\ parse_result.current >= 2
    /\ Len(parser_tokens) > parse_result.current + 2

(***************************************************************************)
(* Properties of the evaluator.                                            *)
(***************************************************************************)
\* the tree handed to interpret
Tree == parse_result.expr

Evaluated == pc = "done" /\ parse_result.status = "ok"

\* nil and Boolean(false) are falsy, every other value is truthy
Truthy(value) == value # None /\ value # LitBoolean(FALSE)

\* C15: a Ternary node yields the condition's error when the condition
\* fails and otherwise the outcome of exactly one branch, the then-branch for
\* a truthy condition and the else-branch for a falsy one; an error that only
\* the other branch would raise is not raised.
C15_TernaryShortCircuit ==
    (Evaluated /\ Tree.kind = "Ternary") =>
        LET condition == interpret(Tree.condition)
        IN  IF ~condition.ok THEN result = condition
            ELSE IF Truthy(condition.value)
            THEN result = interpret(Tree.then_branch)
            ELSE result = interpret(Tree.else_branch)

\* a ternary with a truthy condition has yielded its then-branch although
\* its else-branch divides by zero
C15_Witness ==
    /\ Evaluated
    /\ Tree.kind = "Ternary"
    /\ interpret(Tree.condition).ok
    /\ Truthy(interpret(Tree.condition).value)
    /\ Tree.else_branch = TreeDivideByZero
    /\ result.ok

\* a Binary node of the given operator whose two operands evaluated
BinaryEvaluated(types) ==
    /\ Evaluated
    /\ Tree.kind = "Binary"
    /\ Tree.operator.token_type \in types
    /\ interpret(Tree.left).ok
    /\ interpret(Tree.right).ok

LeftValue == interpret(Tree.left).value

RightValue == interpret(Tree.right).value

IsNumber(value) == value.kind = "Number"

IsString(value) == value.kind = "String"

\* the error a node raises at its own operator
OperatorError(message) ==
    [ok |-> FALSE, err |-> [message |-> message, token |-> Tree.operator]]

\* the text of a whole number or of a half: "2", "-1", "0.5"
ExpectedNumberText(q) ==
    IF q.d = 1
    THEN (IF q.n < 0 THEN <<"-">> ELSE <<>>) \o NatText(Abs(q.n))
    ELSE <<"0", ".", "5">>

\* the display text of a value
DisplayText(value) ==
    CASE value = None -> <<"n", "i", "l">>
      [] value = LitBoolean(TRUE) -> <<"t", "r", "u", "e">>
      [] value = LitBoolean(FALSE) -> <<"f", "a", "l", "s", "e">>
      [] IsNumber(value) -> ExpectedNumberText(value.val)
      [] IsString(value) -> value.val

\* q is the sum of a and b
IsSum(q, a, b) == q.n * (a.d * b.d) = (a.n * b.d + b.n * a.d) * q.d

\* C16: binary + over every pair of operand values: Number + Number is
\* their sum; with at least one String operand the result is the String of
\* the left text followed by the right text, a non-String operand rendered
\* as its display text ("hello" + 1 is "hello1", 1 + "hello" is "1hello");
\* every other pair fails with "operands must be numbers or strings." at the
\* + token.
C16_PlusOperands ==
    BinaryEvaluated({"Plus"}) =>
        IF IsNumber(LeftValue) /\ IsNumber(RightValue)
        THEN /\ result.ok
             /\ IsNumber(result.value)
             /\ IsSum(result.value.val, LeftValue.val, RightValue.val)
        ELSE IF IsString(LeftValue) \/ IsString(RightValue)
        THEN result =
                 EvalOk(LitString(DisplayText(LeftValue) \o DisplayText(RightValue)))
        ELSE result = OperatorError("operands must be numbers or strings.")

\* "hello" + 1 has evaluated to "hello1"
C16_Witness ==
    /\ BinaryEvaluated({"Plus"})
    /\ LeftValue = LitString(WordHello)
    /\ RightValue = LitNumber(Frac(1, 1))
    /\ result = EvalOk(LitString(WordHello \o <<"1">>))

\* q is the quotient, the difference, the product of a and b; the negation of a
IsQuotient(q, a, b) == q.n * (a.d * b.n) = (a.n * b.d) * q.d

IsDifference(q, a, b) == q.n * (a.d * b.d) = (a.n * b.d - b.n * a.d) * q.d

IsProduct(q, a, b) == q.n * (a.d * b.d) = (a.n * b.n) * q.d

IsNegation(q, a) == q.n * a.d = (0 - a.n) * q.d

\* C17: binary / with two Number operands fails with "Division by zero."
\* carrying the node's / token whenever the right operand is zero and
\* otherwise returns the quotient; with an operand that is not a Number it
\* fails with "Operands must be numbers.".
C17_DivisionByZero ==
    BinaryEvaluated({"Slash"}) =>
        IF IsNumber(LeftValue) /\ IsNumber(RightValue)
        THEN IF RightValue.val.n = 0
             THEN result = OperatorError("Division by zero.")
             ELSE /\ result.ok
                  /\ IsNumber(result.value)
                  /\ IsQuotient(result.value.val, LeftValue.val, RightValue.val)
        ELSE result = OperatorError("Operands must be numbers.")

\* a division whose divisor is computed, (1 - 1), has failed at its own /
\* token and not at the - token inside the divisor
C17_Witness ==
    /\ BinaryEvaluated({"Slash"})
    /\ IsNumber(LeftValue)
    /\ Tree.right.kind = "Grouping"
    /\ RightValue = LitNumber(Frac(0, 1))
    /\ ~result.ok
    /\ result.err.message = "Division by zero."
    /\ result.err.token = OperatorToken("Slash", 0)

\* a Unary node of the given operator whose operand evaluated
UnaryEvaluated(types) ==
    /\ Evaluated
    /\ Tree.kind = "Unary"
    /\ Tree.operator.token_type \in types
    /\ interpret(Tree.right).ok

\* C18: unary -, binary - and binary * succeed exactly when every operand
\* is a Number, giving the negation, the difference, the product; for any
\* other operand value they fail with "Operands must be numbers." carrying
\* the node's operator token.
C18_NumbersOnly ==
    /\ BinaryEvaluated({"Minus"}) =>
          IF IsNumber(LeftValue) /\ IsNumber(RightValue)
          THEN /\ result.ok
               /\ IsNumber(result.value)
               /\ IsDifference(result.value.val, LeftValue.val, RightValue.val)
          ELSE result = OperatorError("Operands must be numbers.")
    /\ BinaryEvaluated({"Star"}) =>
          IF IsNumber(LeftValue) /\ IsNumber(RightValue)
          THEN /\ result.ok
               /\ IsNumber(result.value)
               /\ IsProduct(result.value.val, LeftValue.val, RightValue.val)
          ELSE result = OperatorError("Operands must be numbers.")
    /\ UnaryEvaluated({"Minus"}) =>
          IF IsNumber(RightValue)
          THEN /\ result.ok
               /\ IsNumber(result.value)
               /\ IsNegation(result.value.val, RightValue.val)
          ELSE result = OperatorError("Operands must be numbers.")

\* a number times a string has failed at the * token
C18_Witness ==
    /\ BinaryEvaluated({"Star"})
    /\ IsNumber(LeftValue)
    /\ IsString(RightValue)
    /\ result = OperatorError("Operands must be numbers.")

\* a op b for two numbers and a comparison operator
Compares(token_type, a, b) ==
    CASE token_type = "Greater" -> a.n * b.d > b.n * a.d
      [] token_type = "GreaterEqual" -> a.n * b.d >= b.n * a.d
      [] token_type = "Less" -> a.n * b.d < b.n * a.d
      [] token_type = "LessEqual" -> a.n * b.d <= b.n * a.d

ComparisonOperators == {"Greater", "GreaterEqual", "Less", "LessEqual"}

\* C19: binary >, >=, <, <= never fail once both operands have evaluated:
\* two Numbers give the Boolean of the numeric comparison, every other pair
\* of operands (two equal Strings or nil with nil under >= and <= included)
\* gives Boolean(false).
C19_ComparisonTotal ==
    BinaryEvaluated(ComparisonOperators) =>
        IF IsNumber(LeftValue) /\ IsNumber(RightValue)
        THEN result = EvalOk(LitBoolean(
                 Compares(Tree.operator.token_type, LeftValue.val, RightValue.val)))
        ELSE result = EvalOk(LitBoolean(FALSE))

\* "hello" >= "hello" has evaluated to false
C19_Witness ==
    /\ BinaryEvaluated({"GreaterEqual"})
    /\ LeftValue = LitString(WordHello)
    /\ RightValue = LitString(WordHello)
    /\ result = EvalOk(LitBoolean(FALSE))

\* the two values are equal: both absent, or of the same variant with equal
\* contents
SameValue(a, b) ==
    IF a = None \/ b = None THEN a = None /\ b = None
    ELSE IF a.kind # b.kind THEN FALSE
    ELSE IF IsNumber(a) THEN a.val.n * b.val.d = b.val.n * a.val.d
    ELSE a.val = b.val

EqualityOperators == {"EqualEqual", "BangEqual"}

OtherEquality(token_type) ==
    IF token_type = "EqualEqual" THEN "BangEqual" ELSE "EqualEqual"

Negated(r) == EvalOk(LitBoolean(~r.value.val))

\* C20: binary == and != never fail once both operands have evaluated; nil
\* == nil is true, nil against a present value is false, values of different
\* variants are never equal (1 == "1" is false), values of one variant are
\* equal exactly when their contents are; swapping the operands gives the
\* same result and a != b is the negation of a == b.
C20_EqualityRelation ==
    BinaryEvaluated(EqualityOperators) =>
        /\ result = EvalOk(LitBoolean(
               IF Tree.operator.token_type = "EqualEqual"
               THEN SameValue(LeftValue, RightValue)
               ELSE ~SameValue(LeftValue, RightValue)))
        /\ interpret(ExprBinary(Tree.right, Tree.operator, Tree.left)) = result
        /\ interpret(ExprBinary(Tree.left,
               OperatorToken(OtherEquality(Tree.operator.token_type),
                             Tree.operator.line_number),
               Tree.right)) = Negated(result)

\* 1 == "1" has evaluated to false
C20_Witness ==
    /\ BinaryEvaluated({"EqualEqual"})
    /\ LeftValue = LitNumber(Frac(1, 1))
    /\ RightValue = LitString(<<"1">>)
    /\ result = EvalOk(LitBoolean(FALSE))

\* Boolean(b) is b, nil is false, every Number, String and Identifier is true
ExpectedTruthiness(value) ==
    CASE value.kind = "Boolean" -> value.val
      [] value.kind = "None" -> FALSE
      [] value.kind \in {"Number", "String", "Identifier"} -> TRUE

\* C21: truthiness is total over values: Boolean(b) is b, nil is false, and
\* every Number (0 included), String ("" and "false" included) and Identifier
\* is true.  Unary ! returns the Boolean negation of its operand's truthiness
\* and never fails, so !0 is Boolean(false) and !nil is Boolean(true); a
\* ternary chooses its branch by the same rule.
C21_Truthiness ==
    /\ UnaryEvaluated({"Bang"}) =>
          result = EvalOk(LitBoolean(~ExpectedTruthiness(RightValue)))
    /\ (Evaluated /\ Tree.kind = "Ternary" /\ interpret(Tree.condition).ok) =>
          result = IF ExpectedTruthiness(interpret(Tree.condition).value)
                   THEN interpret(Tree.then_branch)
                   ELSE interpret(Tree.else_branch)

\* !0 has evaluated to Boolean(false)
C21_Witness ==
    /\ UnaryEvaluated({"Bang"})
    /\ RightValue = LitNumber(Frac(0, 1))
    /\ result = EvalOk(LitBoolean(FALSE))

-----------------------------------------------------------------------------
\* Order of evaluation inside a Binary node

\* the failure of 1 / 0 and the failure of -"a", both with operators on line 1
ErrDivideByZero ==
    [ok |-> FALSE,
     err |-> [message |-> "Division by zero.", token |-> OperatorToken("Slash", 1)]]

ErrNegatedString ==
    [ok |-> FALSE,
     err |-> [message |-> "Operands must be numbers.",
              token |-> OperatorToken("Minus", 1)]]

\* C24: a Binary node evaluates its left operand first and stops at the
\* first failure: a failing left operand gives the left's error whatever the
\* right operand would do; a failing right operand gives the right's error
\* whatever the type of the left value; the node's own error, raised at its
\* own operator, arises only when both operands have evaluated.
C24_LeftToRight ==
    (Evaluated /\ Tree.kind = "Binary") =>
        LET left == interpret(Tree.left)
            right == interpret(Tree.right)
        IN  /\ ~left.ok => result = left
            /\ (left.ok /\ ~right.ok) => result = right
            /\ (left.ok /\ right.ok /\ ~result.ok) =>
                   result.err.token = Tree.operator
            /\ (Tree.left = TreeDivideByZero) => result = ErrDivideByZero
            /\ (Tree.left \in {ExprLiteral(v) : v \in EvalValues}
                    /\ Tree.right = TreeDivideByZero) => result = ErrDivideByZero

\* nil - (1 / 0) has returned the division's error and not the type error of
\* the subtraction, and (1 / 0) - (-"a") has returned the division's error
C24_Witness ==
    /\ Evaluated
    /\ Tree.kind = "Binary"
    /\ Tree.operator.token_type = "Minus"
    /\ \/ /\ Tree.left = ExprLiteral(None)
          /\ Tree.right = TreeDivideByZero
          /\ result = ErrDivideByZero
       \/ /\ Tree.left = TreeDivideByZero
          /\ interpret(Tree.right) = ErrNegatedString
          /\ result = ErrDivideByZero

-----------------------------------------------------------------------------
\* Line numbers

RECURSIVE CodePoints(_)
\* the number of code points still in the iterator
CodePoints(iter) ==
    IF iter = <<>> THEN 0 ELSE Len(Head(iter).g) + CodePoints(Tail(iter))

\* the part of the source the scanner has consumed
Consumed == SubSeq(source, 1, Len(source) - CodePoints(grapheme_iter))

RECURSIVE NewlineCount(_)
NewlineCount(text) ==
    IF text = <<>> THEN 0
    ELSE (IF Head(text) = "\n" THEN 1 ELSE 0) + NewlineCount(Tail(text))

\* C25: the line counter always equals the number of newline characters
\* consumed so far, whether they stood between tokens, at the end of a line
\* comment, in a string or in a block comment; so a token is stamped with
\* the number of newlines before its last character and Eof with the number
\* of newlines of the whole source.
C25_LineCounter ==
    /\ [](pc \in {"scanning", "scanned"} => line_number = NewlineCount(Consumed))
    /\ [][(pc = "scanning" /\ Len(tokens') > Len(tokens)
              /\ tokens'[Len(tokens')].ok)
            => tokens'[Len(tokens')].token.line_number = NewlineCount(Consumed')]_vars

-----------------------------------------------------------------------------
\* Decimal points at the edge of a number

\* a text of ASCII digits, points and spaces
IsPointText(text) ==
    \A k \in 1..Len(text) : text[k] \in Digits \cup {".", " "}

RECURSIVE DigitRunLength(_)
DigitRunLength(text) ==
    IF text # <<>> /\ Head(text) \in Digits
    THEN 1 + DigitRunLength(Tail(text)) ELSE 0

\* the length of the number at the start of text: a run of digits, and a
\* point with the digits behind it only when a digit follows the point
NumberLength(text) ==
    LET whole == DigitRunLength(text)
    IN  IF Len(text) >= whole + 2 /\ text[whole + 1] = "."
           /\ text[whole + 2] \in Digits
        THEN whole + 1 + DigitRunLength(SubSeq(text, whole + 2, Len(text)))
        ELSE whole

RECURSIVE PointTextTokens(_)
\* the <<type, lexeme>> pairs of a text of digits, points and spaces
PointTextTokens(text) ==
    IF text = <<>> THEN <<<<"Eof", <<>>>>>>
    ELSE IF Head(text) = " " THEN PointTextTokens(Tail(text))
    ELSE IF Head(text) = "." THEN <<<<"Dot", <<".">>>>>> \o PointTextTokens(Tail(text))
    ELSE <<<<"Number", SubSeq(text, 1, NumberLength(text))>>>>
             \o PointTextTokens(SubSeq(text, NumberLength(text) + 1, Len(text)))

TypeAndLexeme(toks) ==
    [k \in 1..Len(toks) |-> <<toks[k].token.token_type, toks[k].token.lexeme>>]

\* C26: in a text of digits, points and spaces a point belongs to a number
\* only when it stands between two digits of it: a point after the digits
\* that is followed by a space, by another point or by the end of the input
\* is a Dot token of its own ("1." is Number "1", Dot), and so is a point
\* before the digits (".5" is Dot, Number "5"); no lexical error arises.
C26_NoTrailingPoint ==
    (pc = "scanned" /\ IsPointText(source)) =>
        /\ AllOk(tokens)
        /\ TypeAndLexeme(tokens) = PointTextTokens(source)

-----------------------------------------------------------------------------
\* The parser's cursor

EndsWithEof(toks) ==
    toks # <<>> /\ toks[Len(toks)].token_type = "Eof"

Parsed == pc \in {"parsed", "done", "parse_panicked"} /\ parse_result # None

\* C27: for a token list that ends with Eof, parse never fails on an index
\* (tokens[current] with current past the end, tokens[current - 1] with
\* current = 0): it returns a tree or a parse error with the cursor on a
\* token of the list, at most on the Eof token, and a tree only after at
\* least one token was consumed. The cursor only ever grows, so its final
\* value bounds every value it had.
C27_CursorInRange ==
    (Parsed /\ EndsWithEof(parser_tokens)) =>
        /\ pc # "parse_panicked"
        /\ parse_result.status \in {"ok", "err"}
        /\ parse_result.current \in 0..(Len(parser_tokens) - 1)
        /\ parse_result.status = "ok" => parse_result.current >= 1

\* the list [Eof] was parsed: "Expect expression." with the cursor at 0; or a
\* list of several tokens was parsed up to its Eof token
C27_Witness ==
    /\ Parsed
    /\ \/ /\ Len(parser_tokens) = 1
          /\ parser_tokens[1].token_type = "Eof"
          /\ parse_result.status = "err"
          /\ parse_result.current = 0
       \/ /\ Len(parser_tokens) > MaxChain
          /\ EndsWithEof(parser_tokens)
          /\ parse_result.status = "ok"
          /\ parse_result.current = Len(parser_tokens) - 1

-----------------------------------------------------------------------------
\* Tokens left over after an expression

\* C28: when parse returns a tree the cursor is on the Eof token: the whole
\* token list was one expression, and a list with tokens left over after a
\* complete expression (1 2, or 1 followed by a closing parenthesis) gives a
\* parse error.
C28_WholeInput ==
    (Parsed /\ EndsWithEof(parser_tokens) /\ parse_result.status = "ok") =>
        parse_result.current = Len(parser_tokens) - 1

\* C29: for every tree that parse returns, interpret returns a value that is
\* nil, a Boolean, a Number or a String, or a runtime error that carries an
\* operator token and one of the three messages of the operators; never an
\* Identifier and never one of the internal "Unexpected ..." errors.
C29_ResultsOfParsedTrees ==
    (pc = "done" /\ parse_result # None /\ parse_result.status = "ok") =>
        IF result.ok
        THEN result.value.kind \in {"None", "Boolean", "Number", "String"}
        ELSE /\ result.err.token # None
             /\ result.err.token.token_type \in BinaryOperators \cup UnaryOperators
             /\ result.err.message \in {"Operands must be numbers.",
                                        "Division by zero.",
                                        "operands must be numbers or strings."}

-----------------------------------------------------------------------------
(***************************************************************************)
(* Interactive mode (frontend/interactive.rs): a thread reads lines from   *)
(* stdin and sends them on a channel; the main loop polls the channel,     *)
(* runs one pipeline pass per line, and leaves when the quit flag is set   *)
(* and the channel was found empty. The pass is run of frontend/mod.rs,    *)
(* with the steps it has above.                                            *)
(***************************************************************************)
IsWhitespace(c) == c \in {" ", "\t", "\n", "\r"}

RECURSIVE TrimStart(_)
TrimStart(text) ==
    IF text # <<>> /\ IsWhitespace(Head(text)) THEN TrimStart(Tail(text)) ELSE text

RECURSIVE TrimEnd(_)
TrimEnd(text) ==
    IF text # <<>> /\ IsWhitespace(text[Len(text)])
    THEN TrimEnd(SubSeq(text, 1, Len(text) - 1)) ELSE text

\* str::trim
trim(text) == TrimEnd(TrimStart(text))

WordExit == <<"e", "x", "i", "t">>

\* print!("lox > ")
PromptLine == <<"lox > ">>

\* lines a user types, each with the newline read_line keeps: exit, exit
\* with blanks around it, an expression with a value, a word the parser
\* rejects, and a character the scanner rejects
LineExit == WordExit \o <<"\n">>
LinePaddedExit == <<" ">> \o WordExit \o <<" ", "\n">>
LineValue ==
    <<"(", "1", "+", "2", ")", "/", "1", " ", "!", "=", "\"", "a", "\"", "\n">>
LineWord == <<"a", "\n">>
LineInvalid == <<"@", "\n">>

LineTexts == {LineExit, LinePaddedExit, LineValue, LineWord, LineInvalid}

\* the most lines a session types
MaxLines == 2

\* the most times the Ctrl-C handler runs in a session
MaxInterrupts == 1

\* the most reads at the end of a closed input
MaxEofReads == 1

LineScripts == UNION {[1..n -> LineTexts] : n \in 0..MaxLines}

\* run_interactive up to the loop: the flag is false, the reader thread is
\* spawned, the prompt is printed. The input either stays open when the
\* lines are typed (eof_reads = 0) or is closed behind them.
InitInteractive ==
    /\ source = <<>>
    /\ grapheme_iter = <<>>
    /\ line_number = 0
    /\ lexeme_start = 0
    /\ lexeme_current = 0
    /\ tokens = <<>>
    /\ pc = "polling"
    /\ output = <<PromptLine>>
    /\ parser_tokens = <<>>
    /\ parse_result = None
    /\ result = None
    /\ stdin \in LineScripts
    /\ eof_reads \in {0, MaxEofReads}
    /\ reader = "running"
    /\ channel = <<>>
    /\ has_quit = FALSE
    /\ interrupts = 0
    /\ sent = <<>>
    /\ received = <<>>
    /\ returned = 0

pipeline == <<source, grapheme_iter, line_number, lexeme_start, lexeme_current,
             tokens, parser_tokens, parse_result, result>>

\* the main thread has left the loop or has panicked: the process ends
Stopped ==
    pc \in {"exited", "disconnected_panicked", "scan_panicked", "unwrap_panicked",
            "parse_panicked"}

\* tx.send(buffer)
send(line) ==
    /\ channel' = Append(channel, line)
    /\ sent' = Append(sent, line)

\* the reader thread: read_line returned a line, send it
ReaderSend ==
    /\ ~Stopped
    /\ reader = "running"
    /\ stdin # <<>>
    /\ send(Head(stdin))
    /\ stdin' = Tail(stdin)
    /\ UNCHANGED <<pc, output, pipeline, eof_reads, reader, has_quit, interrupts,
                   received, returned>>

\* the reader thread at the end of a closed input: read_line returns Ok(0)
\* and leaves the buffer empty, and the empty text is sent
ReaderEof ==
    /\ ~Stopped
    /\ reader = "running"
    /\ stdin = <<>>
    /\ eof_reads > 0
    /\ send(<<>>)
    /\ eof_reads' = eof_reads - 1
    /\ UNCHANGED <<pc, output, pipeline, stdin, reader, has_quit, interrupts,
                   received, returned>>

\* the reader thread: read_line returned an error (input that is not UTF-8),
\* unwrap panics, the thread ends and drops the sender
ReaderFail ==
    /\ ~Stopped
    /\ reader = "running"
    /\ reader' = "failed"
    /\ UNCHANGED <<pc, output, pipeline, stdin, eof_reads, channel, has_quit,
                   interrupts, sent, received, returned>>

\* the Ctrl-C handler, on its own thread: println!() and store(true)
Interrupt ==
    /\ ~Stopped
    /\ interrupts < MaxInterrupts
    /\ output' = Append(output, <<"">>)
    /\ has_quit' = TRUE
    /\ interrupts' = interrupts + 1
    /\ UNCHANGED <<pc, pipeline, stdin, eof_reads, reader, channel, sent,
                   received, returned>>

\* the line try_recv returns from a channel that holds one, and what stays
try_recv_Newest(ch) ==
    [line |-> ch[Len(ch)], rest |-> SubSeq(ch, 1, Len(ch) - 1)]

try_recv(ch) == [line |-> Head(ch), rest |-> Tail(ch)]

\* stdin_channel.try_recv(): Ok(line), Empty, or Disconnected when the
\* channel is empty and its sender is gone
Poll ==
    /\ pc = "polling"
    /\ IF channel # <<>>
       THEN /\ source' = try_recv(channel).line
            /\ channel' = try_recv(channel).rest
            /\ received' = Append(received, try_recv(channel).line)
            /\ pc' = "received"
       ELSE /\ pc' = IF reader = "failed" THEN "disconnected_panicked" ELSE "empty"
            /\ UNCHANGED <<source, channel, received>>
    /\ UNCHANGED <<grapheme_iter, line_number, lexeme_start, lexeme_current,
                   tokens, parser_tokens, parse_result, result, output, stdin,
                   eof_reads, reader, has_quit, interrupts, sent, returned>>

\* the Empty arm: has_quit.load(); print "Exiting..." and break, or poll again
LoadQuit ==
    /\ pc = "empty"
    /\ IF has_quit
       THEN /\ output' = Append(output, <<"Exiting...">>)
            /\ pc' = "exited"
       ELSE /\ pc' = "polling"
            /\ output' = output
    /\ UNCHANGED <<pipeline, repl>>

\* process_line: an exit line stores the flag and returns without a prompt;
\* any other line is handed to run
ProcessLine ==
    /\ pc = "received"
    /\ IF trim(source) = WordExit
       THEN /\ has_quit' = TRUE
            /\ returned' = returned + 1
            /\ pc' = "polling"
            /\ UNCHANGED <<grapheme_iter, line_number, lexeme_start,
                           lexeme_current, tokens, parser_tokens, parse_result,
                           result>>
       ELSE /\ grapheme_iter' = grapheme_indices(source)
            /\ line_number' = 0
            /\ lexeme_start' = 0
            /\ lexeme_current' = 0
            /\ tokens' = <<>>
            /\ parser_tokens' = <<>>
            /\ parse_result' = None
            /\ result' = None
            /\ pc' = "scanning"
            /\ UNCHANGED <<has_quit, returned>>
    /\ UNCHANGED <<source, output, stdin, eof_reads, reader, channel, interrupts,
                   sent, received>>

\* run has returned: process_line prints the prompt and returns
ProcessReturn ==
    /\ pc = "done"
    /\ output' = Append(output, PromptLine)
    /\ returned' = returned + 1
    /\ pc' = "polling"
    /\ UNCHANGED <<pipeline, stdin, eof_reads, reader, channel, has_quit,
                   interrupts, sent, received>>

\* a step of the main thread
MainStep == Next \/ Poll \/ LoadQuit \/ ProcessLine \/ ProcessReturn

NextInteractive ==
    \/ Next
    \/ Poll
    \/ LoadQuit
    \/ ProcessLine
    \/ ProcessReturn
    \/ ReaderSend
    \/ ReaderEof
    \/ ReaderFail
    \/ Interrupt

SpecInteractive == InitInteractive /\ [][NextInteractive]_vars

\* the main thread keeps running while it has a step to take; nothing is
\* assumed of the reader thread or of the user
SpecInteractiveFair == SpecInteractive /\ WF_vars(MainStep)

-----------------------------------------------------------------------------
\* Properties of the interactive loop

\* run is between its call and its return
PassInFlight ==
    pc \in {"scanning", "scanned", "reported", "parsing", "parsed", "done"}

\* run has panicked
PassPanicked == pc \in {"scan_panicked", "unwrap_panicked", "parse_panicked"}

\* process_line has been called and has not returned
Processing == pc = "received" \/ PassInFlight \/ PassPanicked

\* C22: the lines the main loop has taken are, in order and each once, the
\* first lines that were sent, and the lines sent and not yet taken wait in
\* the channel in the order they were sent; the loop takes the next line,
\* the oldest in the channel, only when every call of process_line so far
\* has returned, so a pass is in progress for at most one line, the last one
\* taken.
C22_OneLineAtATime ==
    /\ [](sent = received \o channel)
    /\ [](returned <= Len(received) /\ Len(received) <= returned + 1)
    /\ [](Processing <=> Len(received) = returned + 1)
    /\ [](PassInFlight => source = received[Len(received)])
    /\ [][Len(received') > Len(received) =>
             /\ Len(received) = returned
             /\ channel # <<>>
             /\ received' = Append(received, Head(channel))]_vars

\* two different lines were sent, both waited in the channel or were taken
\* in turn, and both calls of process_line have returned
C22_Witness ==
    /\ Len(sent) = MaxLines
    /\ sent[1] # sent[MaxLines]
    /\ received = sent
    /\ returned = MaxLines
    /\ pc = "polling"

\* C23: the loop leaves only from a poll that found the channel empty and
\* with the flag set; a step that sets the flag while a pass is in flight
\* leaves the pass where it is; when the loop has left, no line that was sent
\* is still in the channel; and once the flag is set and the channel stays
\* empty, the loop prints "Exiting..." and stops.
C23_QuitWhenIdle ==
    /\ [][(pc' = "exited" /\ pc # "exited") => (pc = "empty" /\ has_quit)]_vars
    /\ [][(has_quit' # has_quit /\ PassInFlight) =>
             (pc' = pc /\ UNCHANGED pipeline)]_vars
    /\ [](pc = "exited" => channel = <<>>)
    /\ []((has_quit /\ channel = <<>> /\ Stopped) => pc = "exited")
    /\ (<>[](has_quit /\ channel = <<>>)
           => <>(pc = "exited" /\ output[Len(output)] = <<"Exiting...">>))

=============================================================================
